---- MODULE Spec2Model ----
(***************************************************************************)
(* RDxClaw: the swarm manager (pkg/swarm) and the REST kill endpoint       *)
(* (pkg/api).  A task is spawned under the manager's lock and then run by  *)
(* its own goroutine: tool loop -> status update (locked) -> announcement  *)
(* on the bus -> deferred finish (locked) -> callback.  Every section the  *)
(* code runs under sm.mu is one atomic action.                             *)
(***************************************************************************)
EXTENDS Integers, Sequences, FiniteSets, TLC

\* ---------------------------------------------------------------- bounds
MaxTasks == 2        \* number of Spawn calls explored
MaxClock == 2        \* largest value of the millisecond clock explored

\* ---------------------------------------------------------------- inputs
OriginChannels == {"cli"}
OriginChatIDs  == {"direct"}
Contents       == {"Task complete."}

VARIABLES
    nextID,         \* Manager.nextID
    tasks,          \* Manager.tasks: task id -> SubagentTask
    cancelCalled,   \* task id -> the task's cancel function has been invoked
    callerCtxDone,  \* the ctx the callers pass to Spawn is cancelled/expired
    hasCallback,    \* task id -> Spawn was given a non-nil callback
    pc,             \* task id -> position of the task's goroutine
    loopRes,        \* task id -> what tools.RunToolLoop returned
    callbacks,      \* task id -> number of callback invocations
    bus,            \* messages handed to bus.PublishInbound, in order
    spawned,        \* task ids handed out by Spawn, in order
    now,            \* time.Now().UnixMilli()
    crashed,        \* an unrecovered panic has terminated the process
    op,             \* the last REST kill request and its answer
    termOrder       \* task ids in the order their status became terminal

\* the swarm manager and its tasks
svars == <<nextID, tasks, cancelCalled, callerCtxDone, hasCallback, pc,
           loopRes, callbacks, bus, spawned, now, crashed, op, termOrder>>

VARIABLES
    dl,             \* task id -> the delegate_task Execute that spawned it
    resultChan      \* task id -> the result channel of that Execute

\* the delegate_task calls
dvars == <<dl, resultChan>>

VARIABLES
    kIndexes,       \* Store.indexes: collection -> Index held in memory
    kFiles,         \* the store directory: collection -> content of its file
    kLocks,         \* collection -> holders of the Index's RWMutex
    kProcs,         \* caller -> the Store call it is in and its position
    kLast,          \* the last call that returned, with what it returned
    kHist,          \* the chunks written to indexes, in the order of writing
    kAdds           \* number of Store.AddDocument calls begun

\* the knowledge store
kvars == <<kIndexes, kFiles, kLocks, kProcs, kLast, kHist, kAdds>>

VARIABLES
    cDoc,           \* the document handed to the chunker
    cChunks         \* the chunks made of it

\* one run of the chunker
cvars == <<cDoc, cChunks>>

VARIABLES
    rl,             \* the RateLimiter: rate, window, buckets
    rlNow,          \* time.Now() of the limiter's process
    rlLog           \* the Allow calls made, in order, with what they returned

\* the rate limiter
rvars == <<rl, rlNow, rlLog>>

VARIABLES
    apiKey,         \* ServerConfig.APIKey
    apiLast,        \* the last request served, with its response
    apiBus,         \* messages the server handed to PublishInbound, in order
    apiSessions,    \* session key -> exchanges the agent loop has put in the session
    apiClock        \* time.Now().UnixNano() of the server

\* the REST server and the heartbeat handler
avars == <<apiKey, apiLast, apiBus, apiSessions, apiClock>>

VARIABLES
    events,         \* Server.events, oldest first
    recorded,       \* the number of recordEvent calls made
    statusResp      \* RecentEvents of the last GET /v1/status

\* the activity log of the server
evars == <<events, recorded, statusResp>>

VARIABLES
    chunkCall       \* one call of chunkText: its arguments, loop variables and position

VARIABLES
    skillFile,      \* manifest.json of the skill directory, as os.ReadFile finds it
    loaded          \* what LoadManifest returned

\* the skill manifest
mvars == <<skillFile, loaded>>

VARIABLES
    smMu,           \* sm.mu: the goroutines holding it for writing and for reading
    lk,             \* goroutine -> where it is in RunTask or in a manager call
    storeMu         \* Store.mu: the goroutines holding it for writing and for reading

\* the manager's lock with the goroutines that use it, and the store's lock
lvars == <<smMu, lk, storeMu>>

VARIABLES
    spawnTool,      \* the fields originChannel and originChatID of the shared SpawnTool
    toolLoops,      \* tool loop -> where it is between SetContext and Execute
    toolSpawned     \* the tasks Execute made: the calling loop and the recorded origin

\* the spawn_agent tool and the tool loops that share it
tvars == <<spawnTool, toolLoops, toolSpawned>>

\* the swarm, the delegate tool, the store, the chunker, the limiter, the server
bvars == <<svars, dvars, kvars, cvars, rvars, avars>>

\* the parts added to them
yvars == <<evars, chunkCall, mvars, lvars, tvars>>

xvars == <<dvars, kvars, cvars, rvars, avars, yvars>>

vars == <<svars, dvars, kvars, cvars, rvars, avars, yvars>>

\* ---------------------------------------------------------------- helpers
\* fmt.Sprintf("agent-%d", n)
TaskID(n) == <<"agent", n>>

Terminal == {"completed", "failed", "cancelled"}

NoRes == [err |-> FALSE, isNil |-> FALSE, content |-> ""]
NoOp  == [name |-> "none"]

\* error values of KillAgent, as the words of their messages
ErrNotFound == <<"agent", "not", "found">>
ErrNotRunning(status) == <<"agent", "is", "not", "running", "(status:", status, ")">>

\* strings.Contains on the words of a message
Contains(s, sub) ==
    \E i \in 1..(Len(s) - Len(sub) + 1) :
        \A j \in 1..Len(sub) : s[i + j - 1] = sub[j]

\* (fault) the task context derived from the ctx passed to Spawn
ParentDone_Caller(id) == callerCtxDone

\* the parent of the task context: context.Background() is never done
ParentDone(id) == FALSE

\* ctx.Err() != nil for the task context made in Spawn
TaskCtxErr(id) == cancelCalled[id] \/ ParentDone(id)

GetAgent(id) == IF id \in DOMAIN tasks THEN tasks[id] ELSE [Status |-> "none"]

\* ---------------------------------------------------------------- Init
\* the store before its first use (filled in below)
KnowIdle ==
    /\ kIndexes = <<>>
    /\ kFiles = <<>>
    /\ kLocks = <<>>
    /\ kProcs = <<>>
    /\ kLast = <<>>
    /\ kHist = <<>>
    /\ kAdds = 0

\* no document at the chunker
ChunkIdle ==
    /\ cDoc = <<>>
    /\ cChunks = <<>>

\* no activity recorded
EventsIdle ==
    /\ events = <<>>
    /\ recorded = 0
    /\ statusResp = <<>>

\* chunkText not called
ChunkCallIdle == chunkCall = <<>>

\* no skill directory looked at
ManifestIdle ==
    /\ skillFile = <<>>
    /\ loaded = <<>>

\* no goroutine at the manager's lock
LockIdle ==
    /\ smMu = <<>>
    /\ lk = <<>>
    /\ storeMu = <<>>

\* no tool loop at the spawn_agent tool
SpawnToolIdle ==
    /\ spawnTool = <<>>
    /\ toolLoops = <<>>
    /\ toolSpawned = <<>>

\* the added parts at rest
OthersIdle == EventsIdle /\ ChunkCallIdle /\ ManifestIdle /\ LockIdle /\ SpawnToolIdle

\* no rate limiter made
LimiterIdle ==
    /\ rl = <<>>
    /\ rlNow = 0
    /\ rlLog = <<>>

\* the server before its first request, with no API key
ApiIdle ==
    /\ apiKey = <<>>
    /\ apiLast = <<>>
    /\ apiBus = <<>>
    /\ apiSessions = <<>>
    /\ apiClock = 0

\* NewManager
SwarmInit ==
    /\ nextID = 1
    /\ tasks = <<>>
    /\ cancelCalled = <<>>
    /\ callerCtxDone = FALSE
    /\ hasCallback = <<>>
    /\ pc = <<>>
    /\ loopRes = <<>>
    /\ callbacks = <<>>
    /\ bus = <<>>
    /\ spawned = <<>>
    /\ now = 1
    /\ crashed = FALSE
    /\ op = NoOp
    /\ termOrder = <<>>

\* no delegate_task call yet
DelegateInit ==
    /\ dl = <<>>
    /\ resultChan = <<>>

\* the swarm, the delegate tool, the store, the chunker, the limiter and the
\* server before anything was asked of them
BaseIdle == SwarmInit /\ DelegateInit /\ KnowIdle /\ ChunkIdle /\ LimiterIdle /\ ApiIdle

Init ==
    /\ SwarmInit
    /\ DelegateInit
    /\ KnowIdle
    /\ ChunkIdle
    /\ LimiterIdle
    /\ ApiIdle
    /\ OthersIdle

\* ---------------------------------------------------------------- actions
\* the wall clock advances
Tick ==
    /\ ~crashed
    /\ now < MaxClock
    /\ now' = now + 1
    /\ op' = NoOp
    /\ UNCHANGED <<nextID, tasks, cancelCalled, callerCtxDone, hasCallback,
                   pc, loopRes, callbacks, bus, spawned, crashed, termOrder>>
    /\ UNCHANGED xvars

\* (fault) the counter is left as it was
SpawnNextID_NoIncrement == nextID

\* the counter Spawn leaves behind, and the id it gives the new task
SpawnNextID == nextID + 1

SpawnID == TaskID(nextID)

\* Manager.Spawn, the whole locked body; the goroutine starts at the tool loop
SpawnBody(channel, chatID, cb) ==
    /\ ~crashed
    /\ Len(spawned) < MaxTasks
    /\ LET id == SpawnID IN
        /\ tasks' = (id :> [ID |-> id, OriginChannel |-> channel,
                            OriginChatID |-> chatID, Status |-> "running",
                            Result |-> "", Created |-> now, Finished |-> 0])
                    @@ tasks
        /\ cancelCalled' = (id :> FALSE) @@ cancelCalled
        /\ hasCallback' = (id :> cb) @@ hasCallback
        /\ pc' = (id :> "loop") @@ pc
        /\ loopRes' = (id :> NoRes) @@ loopRes
        /\ callbacks' = (id :> 0) @@ callbacks
        /\ spawned' = Append(spawned, id)
    /\ nextID' = SpawnNextID
    /\ op' = NoOp
    /\ UNCHANGED <<callerCtxDone, bus, now, crashed, termOrder>>

\* a Spawn by the spawn_agent tool, the REST layer or a test
Spawn(channel, chatID, cb) ==
    /\ SpawnBody(channel, chatID, cb)
    /\ UNCHANGED xvars

\* the ctx that was passed to Spawn is cancelled or expires
CancelCallerCtx ==
    /\ ~crashed
    /\ ~callerCtxDone
    /\ callerCtxDone' = TRUE
    /\ op' = NoOp
    /\ UNCHANGED <<nextID, tasks, cancelCalled, hasCallback, pc, loopRes,
                   callbacks, bus, spawned, now, crashed, termOrder>>
    /\ UNCHANGED xvars

\* tools.RunToolLoop returns to RunTask.  The loop ends with content, or with
\* an error (provider failure, or the cancelled context seen by a provider or
\* tool call); with an error its result may be nil.  A provider that ignores
\* its context (MockProvider) returns content also after the cancel.
ToolLoopOutcomes ==
    [err : {FALSE}, isNil : {FALSE}, content : Contents]
        \cup [err : {TRUE}, isNil : BOOLEAN, content : {""}]

LoopReturn(id, res) ==
    /\ ~crashed
    /\ id \in DOMAIN tasks
    /\ pc[id] = "loop"
    /\ res \in ToolLoopOutcomes
    /\ loopRes' = [loopRes EXCEPT ![id] = res]
    /\ pc' = [pc EXCEPT ![id] = "update"]
    /\ op' = NoOp
    /\ UNCHANGED <<nextID, tasks, cancelCalled, callerCtxDone, hasCallback,
                   callbacks, bus, spawned, now, crashed, termOrder>>
    /\ UNCHANGED xvars

\* the order of reaching a terminal status, after a step that gives the task
\* one: a task still running is appended
TermOrderAfter(id) ==
    IF tasks[id].Status = "running" THEN Append(termOrder, id) ELSE termOrder

\* RunTask's deferred function: stamps Finished, completes a running task
DeferredFinish(t) ==
    [t EXCEPT !.Finished = now,
              !.Status = IF t.Status = "running" THEN "completed" ELSE t.Status]

\* a panic inside the tool loop: RunTask's deferred function runs, nothing
\* recovers, the panic leaves the goroutine and ends the process
LoopPanic(id) ==
    /\ ~crashed
    /\ id \in DOMAIN tasks
    /\ pc[id] = "loop"
    /\ tasks' = [tasks EXCEPT ![id] = DeferredFinish(tasks[id])]
    /\ pc' = [pc EXCEPT ![id] = "panicked"]
    /\ crashed' = TRUE
    /\ op' = NoOp
    /\ UNCHANGED <<nextID, cancelCalled, callerCtxDone, hasCallback, loopRes,
                   callbacks, bus, spawned, now>>
    /\ termOrder' = TermOrderAfter(id)
    /\ UNCHANGED xvars

\* (fault) every error is recorded as failed
StatusAfterLoop_NoCtxCheck(err, ctxErr) == IF err THEN "failed" ELSE "completed"

\* the status and result RunTask writes after the loop
StatusAfterLoop(err, ctxErr) ==
    IF err THEN (IF ctxErr THEN "cancelled" ELSE "failed") ELSE "completed"

ResultAfterLoop(err, ctxErr, content) ==
    IF err THEN (IF ctxErr THEN "Task cancelled" ELSE "Error") ELSE content

\* RunTask, the locked section after the loop
UpdateStatus(id) ==
    /\ ~crashed
    /\ id \in DOMAIN tasks
    /\ pc[id] = "update"
    /\ tasks' = [tasks EXCEPT
            ![id].Status = StatusAfterLoop(loopRes[id].err, TaskCtxErr(id)),
            ![id].Result = ResultAfterLoop(loopRes[id].err, TaskCtxErr(id),
                                           loopRes[id].content)]
    /\ pc' = [pc EXCEPT ![id] = "announce"]
    /\ op' = NoOp
    /\ UNCHANGED <<nextID, cancelCalled, callerCtxDone, hasCallback, loopRes,
                   callbacks, bus, spawned, now, crashed>>
    /\ termOrder' = TermOrderAfter(id)
    /\ UNCHANGED xvars

\* the announcement RunTask publishes
Announcement(t) ==
    [Channel |-> "system", SenderID |-> <<"swarm", t.ID>>,
     ChatID |-> <<t.OriginChannel, t.OriginChatID>>, Result |-> t.Result]

\* RunTask, sm.bus.PublishInbound
Announce(id) ==
    /\ ~crashed
    /\ id \in DOMAIN tasks
    /\ pc[id] = "announce"
    /\ bus' = Append(bus, Announcement(tasks[id]))
    /\ pc' = [pc EXCEPT ![id] = "defer"]
    /\ op' = NoOp
    /\ UNCHANGED <<nextID, tasks, cancelCalled, callerCtxDone, hasCallback,
                   loopRes, callbacks, spawned, now, crashed, termOrder>>
    /\ UNCHANGED xvars

\* RunTask returns: its deferred function runs under the lock
Finish(id) ==
    /\ ~crashed
    /\ id \in DOMAIN tasks
    /\ pc[id] = "defer"
    /\ tasks' = [tasks EXCEPT ![id] = DeferredFinish(tasks[id])]
    /\ pc' = [pc EXCEPT ![id] = "notify"]
    /\ op' = NoOp
    /\ UNCHANGED <<nextID, cancelCalled, callerCtxDone, hasCallback, loopRes,
                   callbacks, bus, spawned, now, crashed>>
    /\ termOrder' = TermOrderAfter(id)
    /\ UNCHANGED xvars

\* the ToolResult the goroutine of Spawn builds for the callback
ToolResult(res) ==
    IF res.err THEN [IsError |-> TRUE, ForLLM |-> "Agent failed", ForUser |-> res.content]
    ELSE [IsError |-> FALSE, ForLLM |-> <<"Agent completed", res.content>>,
          ForUser |-> res.content]

\* make(chan *tools.ToolResult, 1)
ChanCap == 1

\* (fault) the channel has no buffer: a send completes only while Execute
\* is in its select
CanSend_Unbuffered(id) == dl[id].pc = "waiting"

\* resultChan <- res completes at once: the buffer of the channel has room
CanSend(id) == Len(resultChan[id]) < ChanCap

\* the goroutine of Spawn after RunTask: result.Content is read before err is
\* looked at, so a nil result panics; otherwise the callback is called once.
\* The callback of delegate_task sends the result on the call's channel.
Notify(id) ==
    /\ ~crashed
    /\ id \in DOMAIN tasks
    /\ pc[id] = "notify"
    /\ IF ~hasCallback[id]
       THEN /\ pc' = [pc EXCEPT ![id] = "done"]
            /\ UNCHANGED <<callbacks, crashed>>
       ELSE IF loopRes[id].isNil
       THEN /\ pc' = [pc EXCEPT ![id] = "panicked"]
            /\ crashed' = TRUE
            /\ UNCHANGED callbacks
       ELSE /\ pc' = [pc EXCEPT ![id] = "done"]
            /\ callbacks' = [callbacks EXCEPT ![id] = @ + 1]
            /\ UNCHANGED crashed
    /\ IF hasCallback[id] /\ ~loopRes[id].isNil /\ id \in DOMAIN dl
       THEN /\ CanSend(id)
            /\ resultChan' = [resultChan EXCEPT
                                 ![id] = Append(@, ToolResult(loopRes[id]))]
       ELSE UNCHANGED resultChan
    /\ op' = NoOp
    /\ UNCHANGED <<nextID, tasks, cancelCalled, callerCtxDone, hasCallback,
                   loopRes, bus, spawned, now, termOrder>>
    /\ UNCHANGED <<dl, kvars, cvars, rvars, avars, yvars>>

\* (fault) no status check
KillAllowed_Any(status) == TRUE

\* KillAgent goes on past its status check
KillAllowed(status) == status = "running"

\* Manager.KillAgent: its error, or <<>> for nil
KillAgentErr(id) ==
    IF id \notin DOMAIN tasks THEN ErrNotFound
    ELSE IF ~KillAllowed(tasks[id].Status) THEN ErrNotRunning(tasks[id].Status)
    ELSE <<>>

\* the status answered by handleKillAgent
KillHTTPStatus(id) ==
    IF id = <<>> THEN 400
    ELSE IF KillAgentErr(id) # <<>>
         THEN (IF Contains(KillAgentErr(id), <<"not", "found">>) THEN 404 ELSE 400)
    ELSE 200

\* Server.handleKillAgent with the Manager.KillAgent it calls
HandleKillAgent(id) ==
    /\ ~crashed
    /\ op' = [name |-> "kill", id |-> id,
              called |-> (id # <<>>),
              err |-> IF id = <<>> THEN <<>> ELSE KillAgentErr(id),
              http |-> KillHTTPStatus(id)]
    /\ IF id # <<>> /\ KillAgentErr(id) = <<>>
       THEN /\ cancelCalled' = [cancelCalled EXCEPT ![id] = TRUE]
            /\ tasks' = [tasks EXCEPT ![id].Status = "cancelled"]
       ELSE UNCHANGED <<tasks, cancelCalled>>
    /\ UNCHANGED <<nextID, callerCtxDone, hasCallback, pc, loopRes, callbacks,
                   bus, spawned, now, crashed>>
    /\ termOrder' = IF id # <<>> /\ KillAgentErr(id) = <<>>
                    THEN TermOrderAfter(id) ELSE termOrder
    /\ UNCHANGED xvars

\* the ids a kill request can name: every id Spawn can give, one it never
\* gives, and the empty id
KillIDs == {TaskID(n) : n \in 1..(MaxTasks + 1)} \cup {<<>>}

\* ---------------------------------------------------------------- delegate_task
\* tools.ErrorResult("Delegated task cancelled or timed out")
DelegateCancelled == [IsError |-> TRUE, ForLLM |-> "Delegated task cancelled or timed out",
                      ForUser |-> ""]

\* SubagentTool.Execute up to its select: makes the channel and spawns the
\* task with the callback that sends on it (Spawn returns no error)
DelegateExecute(channel, chatID) ==
    /\ SpawnBody(channel, chatID, TRUE)
    /\ dl' = (SpawnID :> [pc |-> "waiting", ret |-> <<>>]) @@ dl
    /\ resultChan' = (SpawnID :> <<>>) @@ resultChan
    /\ UNCHANGED <<kvars, cvars, rvars, avars, yvars>>

\* the select of Execute takes the result from the channel
DelegateReceive(id) ==
    /\ ~crashed
    /\ id \in DOMAIN dl
    /\ dl[id].pc = "waiting"
    /\ resultChan[id] # <<>>
    /\ dl' = [dl EXCEPT ![id] = [pc |-> "returned", ret |-> Head(resultChan[id])]]
    /\ resultChan' = [resultChan EXCEPT ![id] = Tail(@)]
    /\ op' = NoOp
    /\ UNCHANGED <<nextID, tasks, cancelCalled, callerCtxDone, hasCallback, pc,
                   loopRes, callbacks, bus, spawned, now, crashed, termOrder>>
    /\ UNCHANGED <<kvars, cvars, rvars, avars, yvars>>

\* (fault) the ctx branch cancels the spawned task
CancelledAfterCtxDone_Kill(id) == [cancelCalled EXCEPT ![id] = TRUE]

\* the cancel functions after the ctx branch of the select: it touches none
CancelledAfterCtxDone(id) == cancelCalled

\* the select of Execute sees ctx.Done()
DelegateCtxDone(id) ==
    /\ ~crashed
    /\ id \in DOMAIN dl
    /\ dl[id].pc = "waiting"
    /\ callerCtxDone
    /\ dl' = [dl EXCEPT ![id] = [pc |-> "returned", ret |-> DelegateCancelled]]
    /\ cancelCalled' = CancelledAfterCtxDone(id)
    /\ op' = NoOp
    /\ UNCHANGED <<nextID, tasks, callerCtxDone, hasCallback, pc, loopRes,
                   callbacks, bus, spawned, now, crashed, termOrder>>
    /\ UNCHANGED <<resultChan, kvars, cvars, rvars, avars, yvars>>

DelegateNext ==
    \/ \E ch \in OriginChannels, chat \in OriginChatIDs : DelegateExecute(ch, chat)
    \/ \E id \in DOMAIN dl : DelegateReceive(id)
    \/ \E id \in DOMAIN dl : DelegateCtxDone(id)
    \/ CancelCallerCtx
    \/ \E id \in DOMAIN tasks, res \in ToolLoopOutcomes : LoopReturn(id, res)
    \/ \E id \in DOMAIN tasks : LoopPanic(id)
    \/ \E id \in DOMAIN tasks : UpdateStatus(id)
    \/ \E id \in DOMAIN tasks : Announce(id)
    \/ \E id \in DOMAIN tasks : Finish(id)
    \/ \E id \in DOMAIN tasks : Notify(id)
    \/ \E id \in KillIDs : HandleKillAgent(id)

\* the manager with delegate_task as its only spawner
SpecDelegate == Init /\ [][DelegateNext]_vars

\* ---------------------------------------------------------------- knowledge index
\* Text is a sequence of characters.  "xFF" is a byte that is no valid UTF-8,
\* "uFFFD" the replacement character U+FFFD, "e'" a two-byte letter.
chunkSize == 1000
chunkOverlap == 200

\* the bytes of one character in a Go string
CharBytes(c) == IF c = "uFFFD" THEN 3 ELSE IF c = "e'" THEN 2 ELSE 1

RECURSIVE SumSeq(_)
SumSeq(q) == IF q = <<>> THEN 0 ELSE Head(q) + SumSeq(Tail(q))

\* len(text) of a Go string
ByteLen(text) ==
    LET wide(n) == {i \in DOMAIN text : CharBytes(text[i]) = n}
    IN Cardinality(wide(1)) + 2 * Cardinality(wide(2)) + 3 * Cardinality(wide(3))

\* []rune(text) and back, and the string encoding of encoding/json: a byte
\* that is no valid UTF-8 becomes U+FFFD
ToValidUTF8(text) == [i \in DOMAIN text |-> IF text[i] = "xFF" THEN "uFFFD" ELSE text[i]]

\* strings.ToLower
ToLower(text) ==
    [i \in DOMAIN text |->
        CASE text[i] = "A" -> "a"
          [] text[i] = "B" -> "b"
          [] text[i] = "xFF" -> "uFFFD"
          [] OTHER -> text[i]]

\* [a-zA-Z0-9]
Alnum == {"a", "b", "c", "A", "B", "0", "1"}

\* tokenRegexp.FindAllString(strings.ToLower(text), -1): the maximal runs
RECURSIVE Runs(_)
Runs(t) ==
    LET starts == {i \in DOMAIN t : t[i] \in Alnum} IN
    IF starts = {} THEN <<>>
    ELSE LET s == CHOOSE i \in starts : \A j \in starts : i <= j
             stops == {i \in s..Len(t) : i = Len(t) \/ t[i + 1] \notin Alnum}
             e == CHOOSE i \in stops : \A j \in stops : i <= j
         IN <<SubSeq(t, s, e)>> \o Runs(SubSeq(t, e + 1, Len(t)))

tokenize(text) == Runs(ToLower(text))

\* (fault) the window advances by its whole size
ChunkStep_NoOverlap(size, overlap) == size

\* the advance of the window of chunkText
ChunkStep(size, overlap) == size - overlap

\* the loop of chunkText over n runes, from rune i: the windows [from, to)
RECURSIVE ChunkLoop(_, _, _, _)
ChunkLoop(i, n, size, overlap) ==
    IF i >= n THEN <<>>
    ELSE LET end == IF i + size > n THEN n ELSE i + size IN
         <<<<i, end>>>> \o
            (IF end >= n THEN <<>>
             ELSE ChunkLoop(i + ChunkStep(size, overlap), n, size, overlap))

\* the windows chunkText cuts a text of nRunes runes and nBytes bytes into:
\* the text as a whole when its byte length is within size
ChunkSpans(nRunes, nBytes, size, overlap) ==
    IF nBytes <= size THEN <<<<0, nRunes>>>>
    ELSE ChunkLoop(0, nRunes, size, overlap)

\* chunkText: a short text is returned as it is, the windows of a long one
\* are cut from its runes
chunkText(text, size, overlap) ==
    IF ByteLen(text) <= size THEN <<text>>
    ELSE LET spans == ChunkLoop(0, Len(text), size, overlap) IN
         [k \in DOMAIN spans |->
            SubSeq(ToValidUTF8(text), spans[k][1] + 1, spans[k][2])]

\* fmt.Sprintf("%s_chk_%d", doc.ID, i)
ChunkID(docID, i) == <<docID, "chk", i>>

\* the Chunk AddDocument makes for the i-th piece of a document
NewChunk(docID, i, content) ==
    [ID |-> ChunkID(docID, i), DocumentID |-> docID, Content |-> content,
     Index |-> i]

\* NewIndex
NewIndex == [Docs |-> <<>>, InvertedIdx |-> <<>>, DocLengths |-> <<>>,
             DocCount |-> 0, SumDocLen |-> 0]

\* Index.AddDocument, one pass of its loop
AddChunk(idx, chunk) ==
    LET tokens == tokenize(chunk.Content)
        terms == {tokens[i] : i \in DOMAIN tokens}
        tf(term) == Cardinality({i \in DOMAIN tokens : tokens[i] = term})
        old(term) == IF term \in DOMAIN idx.InvertedIdx
                     THEN idx.InvertedIdx[term] ELSE <<>>
    IN [Docs |-> (chunk.ID :> chunk) @@ idx.Docs,
        DocLengths |-> (chunk.ID :> Len(tokens)) @@ idx.DocLengths,
        SumDocLen |-> idx.SumDocLen + Len(tokens),
        DocCount |-> idx.DocCount + 1,
        InvertedIdx |->
            [t \in DOMAIN idx.InvertedIdx \cup terms |->
                IF t \in terms
                THEN Append(old(t), [ChunkID |-> chunk.ID, TF |-> tf(t)])
                ELSE idx.InvertedIdx[t]]]

RECURSIVE AddChunks(_, _, _, _)
AddChunks(idx, docID, pieces, i) ==
    IF i >= Len(pieces) THEN idx
    ELSE AddChunks(AddChunk(idx, NewChunk(docID, i, pieces[i + 1])),
                   docID, pieces, i + 1)

\* Index.AddDocument, the body under idx.mu
IndexAddDocument(idx, doc) ==
    AddChunks(idx, doc.ID, chunkText(doc.Content, chunkSize, chunkOverlap), 0)

\* the chunk ids one AddDocument writes, in order
ChunkIDsOf(doc) ==
    LET pieces == chunkText(doc.Content, chunkSize, chunkOverlap) IN
    [k \in DOMAIN pieces |-> ChunkID(doc.ID, k - 1)]

\* ---------------------------------------------------------------- BM25 search
\* k1 = 1.2 and b = 0.75 as fractions
k1Num == 6
k1Den == 5
bNum == 3
bDen == 4

\* the unit of a score: one millionth
\* IdfTable[N][n] = floor(10^6 * ln((N - n + 0.5) / (n + 0.5) + 1))
IdfTable ==
    << <<287682>>,
       <<693147, 182321>>,
       <<980829, 470003, 133531>>,
       <<1203972, 693147, 356674, 105360>>,
       <<1386294, 875468, 538996, 287682, 87011>>,
       <<1540445, 1029619, 693147, 441832, 241162, 74107>>,
       <<1673976, 1163150, 826678, 575364, 374693, 207639, 64538>>,
       <<1791759, 1280933, 944461, 693147, 492476, 325422, 182321, 57158>>,
       <<1897119, 1386294, 1049822, 798507, 597837, 430782, 287682, 162518,
         51293>> >>

\* idf of a term with docFreq postings in an index of docCount chunks
Idf(docCount, docFreq) == IdfTable[docCount][docFreq]

\* idf * (numerator / denominator) for one posting, with
\* avgDocLen = SumDocLen / DocCount
PostingScore(idx, docFreq, posting) ==
    LET tf == posting.TF
        docLen == idx.DocLengths[posting.ChunkID]
        S == idx.SumDocLen
        N == idx.DocCount
    IN (Idf(N, docFreq) * tf * (k1Num + k1Den) * bDen * S)
         \div (tf * k1Den * bDen * S
                 + k1Num * ((bDen - bNum) * S + bNum * docLen * N))

\* the postings list of a term
Postings(idx, term) ==
    IF term \in DOMAIN idx.InvertedIdx THEN idx.InvertedIdx[term] ELSE <<>>

\* the chunk ids the scores map holds after the loop over the query tokens
Scored(idx, queryTokens) ==
    UNION {{Postings(idx, queryTokens[i])[j].ChunkID :
               j \in DOMAIN Postings(idx, queryTokens[i])} :
           i \in DOMAIN queryTokens}

\* scores[chunkID] after the loop: every query token, every posting of it
Score(idx, queryTokens, chunkID) ==
    SumSeq([i \in DOMAIN queryTokens |->
        LET postings == Postings(idx, queryTokens[i]) IN
        SumSeq([j \in DOMAIN postings |->
            IF postings[j].ChunkID = chunkID
            THEN PostingScore(idx, Len(postings), postings[j])
            ELSE 0])])

\* one SearchResult
Result(idx, queryTokens, chunkID) ==
    [ChunkID |-> chunkID,
     DocumentID |-> idx.Docs[chunkID].DocumentID,
     Score |-> Score(idx, queryTokens, chunkID)]

\* results[:limit] when there are more than limit
Truncate(results, limit) ==
    IF Len(results) > limit THEN SubSeq(results, 1, limit) ELSE results

\* the slices sort.Slice can leave: the scored chunks in any order that is
\* descending by score (the map is ranged over in any order and the sort is
\* not stable)
Rankings(idx, queryTokens) ==
    LET ids == Scored(idx, queryTokens)
        k == Cardinality(ids)
    IN {[i \in 1..k |-> Result(idx, queryTokens, f[i])] :
          f \in {g \in [1..k -> ids] :
                    /\ \A i, j \in 1..k : i # j => g[i] # g[j]
                    /\ \A i, j \in 1..k :
                          i < j => Score(idx, queryTokens, g[i])
                                      >= Score(idx, queryTokens, g[j])}}

\* (fault) an index without chunks is reported as an error
SearchErr_EmptyIndex(idx) == IF idx.DocCount = 0 THEN "empty index" ELSE ""

\* Index.Search: the error it returns, always nil
SearchErr(idx) == ""

\* Index.Search: what it may return
SearchOutcomes(idx, query, limit) ==
    IF idx.DocCount = 0 THEN {<<>>}
    ELSE {Truncate(r, limit) : r \in Rankings(idx, tokenize(query))}

\* ---------------------------------------------------------------- index file
\* encoder.Encode(idx): the JSON text holds every string as valid UTF-8
Encode(idx) ==
    [json |-> TRUE,
     Docs |-> [id \in DOMAIN idx.Docs |->
                 [idx.Docs[id] EXCEPT !.Content = ToValidUTF8(@)]],
     InvertedIdx |-> idx.InvertedIdx,
     DocLengths |-> idx.DocLengths,
     DocCount |-> idx.DocCount,
     SumDocLen |-> idx.SumDocLen]

\* a file that is no JSON document of an index
CorruptFile == [json |-> FALSE]

\* json.NewDecoder(file).Decode(&idx) succeeds
Decodable(file) == file.json

\* the index LoadIndex builds from a decodable file
Decode(file) ==
    [Docs |-> file.Docs, InvertedIdx |-> file.InvertedIdx,
     DocLengths |-> file.DocLengths, DocCount |-> file.DocCount,
     SumDocLen |-> file.SumDocLen]

\* ---------------------------------------------------------------- knowledge store
MaxAdds == 2         \* number of Store.AddDocument calls explored
MaxProcs == 2        \* number of concurrent callers of the store

Procs == 1..MaxProcs

\* collection names as callers give them, documents, queries and limits
Names == {<<"a">>, <<" ", "A">>, <<" ">>}
DocIDs == {"d1", "d2"}
DocContents == {<<"a">>, <<"a", " ", "b">>, <<"xFF">>, <<>>}
Documents == [ID : DocIDs, Content : DocContents]
Queries == {<<"A", " ", "b">>}
Limits == {1, 5}

\* strings.TrimSpace
RECURSIVE TrimSpace(_)
TrimSpace(t) ==
    IF t = <<>> THEN t
    ELSE IF Head(t) = " " THEN TrimSpace(Tail(t))
    ELSE IF t[Len(t)] = " " THEN TrimSpace(SubSeq(t, 1, Len(t) - 1))
    ELSE t

\* GetIndex: strings.ToLower(strings.TrimSpace(name))
NormalizeName(name) == ToLower(TrimSpace(name))

ErrEmptyName == "index name cannot be empty"

\* a free sync.RWMutex
FreeLock == [writers |-> {}, readers |-> {}]

\* idx.mu.Lock() can return
CanLock(c) == kLocks[c].writers = {} /\ kLocks[c].readers = {}

\* (fault) a read lock that does not wait for the writer
CanRLock_Always(c) == TRUE

\* idx.mu.RLock() can return
CanRLock(c) == kLocks[c].writers = {}

\* f without the key k
Without(f, k) == [x \in DOMAIN f \ {k} |-> f[x]]

\* the file GetIndex leaves for a collection that is not cached: a file that
\* cannot be decoded is replaced by the file of a new index at once
FileAfterGetIndex(c) ==
    IF c \in DOMAIN kFiles /\ ~Decodable(kFiles[c])
    THEN (c :> Encode(NewIndex)) @@ kFiles
    ELSE kFiles

\* the index GetIndex caches for a collection that is not cached
IndexAfterGetIndex(c) ==
    IF c \in DOMAIN kFiles /\ Decodable(kFiles[c])
    THEN Decode(kFiles[c])
    ELSE NewIndex

\* Store.GetIndex for a name that is not empty, under s.mu
GetIndex(c) ==
    IF c \in DOMAIN kIndexes
    THEN UNCHANGED <<kIndexes, kFiles, kLocks>>
    ELSE /\ kIndexes' = (c :> IndexAfterGetIndex(c)) @@ kIndexes
         /\ kFiles' = FileAfterGetIndex(c)
         /\ kLocks' = (c :> FreeLock) @@ kLocks

\* a call returns the error of GetIndex for an empty name
KEmptyName(p, name, call) ==
    /\ p \notin DOMAIN kProcs
    /\ NormalizeName(name) = <<>>
    /\ kLast' = [proc |-> p, op |-> call, coll |-> <<>>, err |-> ErrEmptyName,
                 results |-> <<>>]
    /\ UNCHANGED <<kIndexes, kFiles, kLocks, kProcs, kHist, kAdds>>
    /\ UNCHANGED <<svars, dvars, cvars, rvars, avars, yvars>>

\* Store.AddDocument up to idx.AddDocument: GetIndex
KAddBegin(p, name, doc) ==
    /\ p \notin DOMAIN kProcs
    /\ kAdds < MaxAdds
    /\ NormalizeName(name) # <<>>
    /\ GetIndex(NormalizeName(name))
    /\ kProcs' = (p :> [op |-> "add", pc |-> "lock", coll |-> NormalizeName(name),
                        arg |-> doc]) @@ kProcs
    /\ kAdds' = kAdds + 1
    /\ kLast' = <<>>
    /\ UNCHANGED kHist
    /\ UNCHANGED <<svars, dvars, cvars, rvars, avars, yvars>>

\* Index.AddDocument: idx.mu.Lock()
KAddLock(p) ==
    /\ p \in DOMAIN kProcs
    /\ kProcs[p].pc = "lock"
    /\ CanLock(kProcs[p].coll)
    /\ kLocks' = [kLocks EXCEPT ![kProcs[p].coll].writers = @ \cup {p}]
    /\ kProcs' = [kProcs EXCEPT ![p].pc = "mutate"]
    /\ kLast' = <<>>
    /\ UNCHANGED <<kIndexes, kFiles, kHist, kAdds>>
    /\ UNCHANGED <<svars, dvars, cvars, rvars, avars, yvars>>

\* Index.AddDocument: the loop over the chunks and the deferred Unlock
KAddMutate(p) ==
    /\ p \in DOMAIN kProcs
    /\ kProcs[p].pc = "mutate"
    /\ LET c == kProcs[p].coll
           doc == kProcs[p].arg
           ids == ChunkIDsOf(doc)
       IN /\ kIndexes' = [kIndexes EXCEPT ![c] = IndexAddDocument(@, doc)]
          /\ kHist' = kHist \o [k \in DOMAIN ids |->
                                  [coll |-> c, chunk |-> ids[k], doc |-> doc]]
          /\ kLocks' = [kLocks EXCEPT ![c].writers = @ \ {p}]
    /\ kProcs' = [kProcs EXCEPT ![p].pc = "save"]
    /\ kLast' = <<>>
    /\ UNCHANGED <<kFiles, kAdds>>
    /\ UNCHANGED <<svars, dvars, cvars, rvars, avars, yvars>>

\* Store.AddDocument: idx.Save under the read lock, and the return
KAddSave(p) ==
    /\ p \in DOMAIN kProcs
    /\ kProcs[p].pc = "save"
    /\ CanRLock(kProcs[p].coll)
    /\ kFiles' = (kProcs[p].coll :> Encode(kIndexes[kProcs[p].coll])) @@ kFiles
    /\ kLast' = [proc |-> p, op |-> "add", coll |-> kProcs[p].coll, err |-> "",
                 results |-> <<>>]
    /\ kProcs' = Without(kProcs, p)
    /\ UNCHANGED <<kIndexes, kLocks, kHist, kAdds>>
    /\ UNCHANGED <<svars, dvars, cvars, rvars, avars, yvars>>

\* Store.Search up to idx.Search: GetIndex
KSearchBegin(p, name, query, limit) ==
    /\ p \notin DOMAIN kProcs
    /\ NormalizeName(name) # <<>>
    /\ GetIndex(NormalizeName(name))
    /\ kProcs' = (p :> [op |-> "search", pc |-> "rlock",
                        coll |-> NormalizeName(name),
                        arg |-> [query |-> query, limit |-> limit]]) @@ kProcs
    /\ kLast' = <<>>
    /\ UNCHANGED <<kHist, kAdds>>
    /\ UNCHANGED <<svars, dvars, cvars, rvars, avars, yvars>>

\* Index.Search: idx.mu.RLock()
KSearchRLock(p) ==
    /\ p \in DOMAIN kProcs
    /\ kProcs[p].pc = "rlock"
    /\ CanRLock(kProcs[p].coll)
    /\ kLocks' = [kLocks EXCEPT ![kProcs[p].coll].readers = @ \cup {p}]
    /\ kProcs' = [kProcs EXCEPT ![p].pc = "search"]
    /\ kLast' = <<>>
    /\ UNCHANGED <<kIndexes, kFiles, kHist, kAdds>>
    /\ UNCHANGED <<svars, dvars, cvars, rvars, avars, yvars>>

\* Index.Search: scoring, sorting, the limit, the deferred RUnlock
KSearchRun(p) ==
    /\ p \in DOMAIN kProcs
    /\ kProcs[p].pc = "search"
    /\ \E r \in SearchOutcomes(kIndexes[kProcs[p].coll], kProcs[p].arg.query,
                               kProcs[p].arg.limit) :
          kLast' = [proc |-> p, op |-> "search", coll |-> kProcs[p].coll,
                    err |-> SearchErr(kIndexes[kProcs[p].coll]), results |-> r]
    /\ kLocks' = [kLocks EXCEPT ![kProcs[p].coll].readers = @ \ {p}]
    /\ kProcs' = Without(kProcs, p)
    /\ UNCHANGED <<kIndexes, kFiles, kHist, kAdds>>
    /\ UNCHANGED <<svars, dvars, cvars, rvars, avars, yvars>>

\* the process ends with no call in progress and a new Store is opened on
\* the same directory
KRestart ==
    /\ kProcs = <<>>
    /\ kIndexes # <<>>
    /\ kIndexes' = <<>>
    /\ kLocks' = <<>>
    /\ kLast' = <<>>
    /\ UNCHANGED <<kFiles, kProcs, kHist, kAdds>>
    /\ UNCHANGED <<svars, dvars, cvars, rvars, avars, yvars>>

\* the store directory at start: empty, or with a file that does not decode
KnowInit ==
    /\ kIndexes = <<>>
    /\ kFiles \in {<<>>, (<<"a">> :> CorruptFile)}
    /\ kLocks = <<>>
    /\ kProcs = <<>>
    /\ kLast = <<>>
    /\ kHist = <<>>
    /\ kAdds = 0

InitKnow ==
    SwarmInit /\ DelegateInit /\ KnowInit /\ ChunkIdle /\ LimiterIdle /\ ApiIdle /\ OthersIdle

KnowNext ==
    \/ \E p \in Procs, name \in Names : KEmptyName(p, name, "add")
    \/ \E p \in Procs, name \in Names : KEmptyName(p, name, "search")
    \/ \E p \in Procs, name \in Names, doc \in Documents : KAddBegin(p, name, doc)
    \/ \E p \in Procs : KAddLock(p)
    \/ \E p \in Procs : KAddMutate(p)
    \/ \E p \in Procs : KAddSave(p)
    \/ \E p \in Procs, name \in Names, q \in Queries, l \in Limits :
          KSearchBegin(p, name, q, l)
    \/ \E p \in Procs : KSearchRLock(p)
    \/ \E p \in Procs : KSearchRun(p)
    \/ KRestart

\* the knowledge store with its concurrent callers
SpecKnow == InitKnow /\ [][KnowNext]_vars

\* ---------------------------------------------------------------- chunker
MaxTextLen == 2700   \* longest document body explored, in code points

\* bytes a code point takes in the texts explored
BytesPerRune == {1, 2, 3}

\* documents by the size of their body
ChunkInputs ==
    {[ID |-> d, nRunes |-> n, nBytes |-> n * w] :
        d \in DocIDs, n \in 0..MaxTextLen, w \in BytesPerRune}

InitChunk ==
    /\ SwarmInit
    /\ DelegateInit
    /\ KnowIdle
    /\ cDoc \in ChunkInputs
    /\ cChunks = <<>>
    /\ LimiterIdle
    /\ ApiIdle
    /\ OthersIdle

\* Index.AddDocument: chunkText and the chunk made of every piece, the
\* content of a chunk given as its window
ChunkDocument ==
    /\ cDoc # <<>>
    /\ cChunks = <<>>
    /\ LET spans == ChunkSpans(cDoc.nRunes, cDoc.nBytes, chunkSize, chunkOverlap)
       IN cChunks' = [k \in DOMAIN spans |-> NewChunk(cDoc.ID, k - 1, spans[k])]
    /\ UNCHANGED cDoc
    /\ UNCHANGED <<svars, dvars, kvars, rvars, avars, yvars>>

ChunkNext == ChunkDocument

\* the chunker on one document
SpecChunk == InitChunk /\ [][ChunkNext]_vars

\* ---------------------------------------------------------------- the store, one caller
MaxSeqAdds == 3      \* number of Store.AddDocument calls explored

\* a body of more than chunkSize characters: it is cut into two chunks
LongText == [i \in 1..(chunkSize + 1) |-> "a"]

SeqNames == {<<"a">>}
SeqContents == {<<"a", " ", "b">>, <<"a", " ", "c">>, <<"c">>}
SeqDocuments == [ID : DocIDs, Content : SeqContents]

\* the index GetIndex returns for collection c
IndexOf(c) == IF c \in DOMAIN kIndexes THEN kIndexes[c] ELSE IndexAfterGetIndex(c)

\* Store.AddDocument from call to return, with no other caller
SAdd(name, doc) ==
    /\ kProcs = <<>>
    /\ kAdds < MaxSeqAdds
    /\ NormalizeName(name) # <<>>
    /\ LET c == NormalizeName(name)
           idx == IndexAddDocument(IndexOf(c), doc)
           ids == ChunkIDsOf(doc)
       IN /\ kIndexes' = (c :> idx) @@ kIndexes
          /\ kFiles' = (c :> Encode(idx)) @@ kFiles
          /\ kLocks' = (c :> FreeLock) @@ kLocks
          /\ kHist' = kHist \o [k \in DOMAIN ids |->
                                  [coll |-> c, chunk |-> ids[k], doc |-> doc]]
          /\ kLast' = [proc |-> 1, op |-> "add", coll |-> c, err |-> "",
                       results |-> <<>>]
    /\ kAdds' = kAdds + 1
    /\ UNCHANGED kProcs
    /\ UNCHANGED <<svars, dvars, cvars, rvars, avars, yvars>>

\* Store.Search from call to return, with no other caller
SSearch(name, query, limit) ==
    /\ kProcs = <<>>
    /\ NormalizeName(name) # <<>>
    /\ GetIndex(NormalizeName(name))
    /\ \E r \in SearchOutcomes(IndexOf(NormalizeName(name)), query, limit) :
          kLast' = [proc |-> 1, op |-> "search", coll |-> NormalizeName(name),
                    err |-> SearchErr(IndexOf(NormalizeName(name))),
                    results |-> r, query |-> query, limit |-> limit]
    /\ UNCHANGED <<kProcs, kHist, kAdds>>
    /\ UNCHANGED <<svars, dvars, cvars, rvars, avars, yvars>>

\* the collections ListCollections loads: those with a file that decodes
\* and no index in the cache
Listed(c) == c \in DOMAIN kFiles /\ c \notin DOMAIN kIndexes /\ Decodable(kFiles[c])

\* the Collection ListCollections reports for the file of c
CollectionStats(c) ==
    IF c \in DOMAIN kIndexes
    THEN [Name |-> c, Documents |-> kIndexes[c].DocCount,
          Chunks |-> Cardinality(DOMAIN kIndexes[c].Docs)]
    ELSE IF Decodable(kFiles[c])
    THEN [Name |-> c, Documents |-> Decode(kFiles[c]).DocCount,
          Chunks |-> Cardinality(DOMAIN Decode(kFiles[c]).Docs)]
    ELSE [Name |-> c, Documents |-> 0, Chunks |-> 0]

\* Store.ListCollections: one Collection per index file, loaded indexes cached
SList ==
    /\ kProcs = <<>>
    /\ kLast' = [proc |-> 1, op |-> "list", coll |-> <<>>, err |-> "",
                 results |-> [c \in DOMAIN kFiles |-> CollectionStats(c)]]
    /\ kIndexes' = [c \in DOMAIN kIndexes \cup {x \in DOMAIN kFiles : Listed(x)} |->
                      IF c \in DOMAIN kIndexes THEN kIndexes[c]
                      ELSE Decode(kFiles[c])]
    /\ kLocks' = [c \in DOMAIN kLocks \cup {x \in DOMAIN kFiles : Listed(x)} |->
                      IF c \in DOMAIN kLocks THEN kLocks[c] ELSE FreeLock]
    /\ UNCHANGED <<kFiles, kProcs, kHist, kAdds>>
    /\ UNCHANGED <<svars, dvars, cvars, rvars, avars, yvars>>

InitSeq ==
    SwarmInit /\ DelegateInit /\ KnowIdle /\ ChunkIdle /\ LimiterIdle /\ ApiIdle /\ OthersIdle

SeqNext ==
    \/ \E name \in SeqNames, doc \in SeqDocuments : SAdd(name, doc)
    \/ \E name \in SeqNames, q \in Queries, l \in Limits : SSearch(name, q, l)
    \/ SList
    \/ KRestart

\* the knowledge store used by one caller at a time
SpecStoreSeq == InitSeq /\ [][SeqNext]_vars

\* the limits handleSearch passes on: int(l) of any number in the arguments
SearchLimits == {-1, 0, 1, 5}

\* results[:limit] is evaluated with a negative bound: the slice expression
\* panics at run time
SlicePanics(results, limit) == Len(results) > limit /\ limit < 0

\* Store.Search from call to return or panic, with no other caller, for any
\* limit of the knowledge tool
SSearchLimit(name, query, limit) ==
    /\ kProcs = <<>>
    /\ NormalizeName(name) # <<>>
    /\ GetIndex(NormalizeName(name))
    /\ LET idx == IndexOf(NormalizeName(name))
       IN \E r \in (IF idx.DocCount = 0 THEN {<<>>}
                    ELSE Rankings(idx, tokenize(query))) :
             LET panics == idx.DocCount # 0 /\ SlicePanics(r, limit)
             IN kLast' = [proc |-> 1, op |-> "search", coll |-> NormalizeName(name),
                          err |-> SearchErr(idx),
                          results |-> IF panics THEN <<>> ELSE Truncate(r, limit),
                          query |-> query, limit |-> limit, panic |-> panics]
    /\ UNCHANGED <<kProcs, kHist, kAdds>>
    /\ UNCHANGED <<svars, dvars, cvars, rvars, avars, yvars>>

SearchLimitNext ==
    \/ \E name \in SeqNames, doc \in SeqDocuments : SAdd(name, doc)
    \/ \E name \in SeqNames, q \in Queries, l \in SearchLimits :
          SSearchLimit(name, q, l)

\* the store searched with every kind of limit
SpecSearchLimit == InitSeq /\ [][SearchLimitNext]_vars

MaxListAdds == 2     \* number of adds explored with bodies of several chunks

ListContents == {<<"a">>, <<"b">>, LongText}
ListDocuments == [ID : DocIDs, Content : ListContents]

ListNext ==
    \/ \E name \in SeqNames, doc \in ListDocuments :
          kAdds < MaxListAdds /\ SAdd(name, doc)
    \/ SList
    \/ KRestart

\* the store with documents of one and of several chunks, and its listing
SpecList == InitSeq /\ [][ListNext]_vars

\* ---------------------------------------------------------------- rate limiter
MaxRLClock == 5      \* largest value of the limiter's clock explored
MaxRLCalls == 4      \* number of Allow calls explored

\* the limiters explored: rate and window of NewRateLimiter, the window in
\* ticks of the clock; the server makes a limiter only for a rate above zero
Rates == {1, 2}
Windows == {2}
IPs == {"192.168.1.1", "192.168.1.2"}

\* NewRateLimiter
InitLimiter ==
    /\ SwarmInit /\ DelegateInit /\ KnowIdle /\ ChunkIdle /\ ApiIdle /\ OthersIdle
    /\ rl \in {[rate |-> r, window |-> w, buckets |-> <<>>] :
                  r \in Rates, w \in Windows}
    /\ rlNow = 0
    /\ rlLog = <<>>

\* time passes
RLTick ==
    /\ rlNow < MaxRLClock
    /\ rlNow' = rlNow + 1
    /\ UNCHANGED <<rl, rlLog>>
    /\ UNCHANGED <<svars, dvars, kvars, cvars, avars, yvars>>

\* (fault) a new bucket holds the whole rate after its first request
FirstTokens_Full(rate) == rate

\* the tokens a new bucket holds: the first request has taken one
FirstTokens(rate) == rate - 1

\* Allow starts a new bucket for ip
NewWindow(ip) ==
    \/ ip \notin DOMAIN rl.buckets
    \/ rlNow - rl.buckets[ip].lastReset >= rl.window

\* what Allow returns for ip
Allowed(ip) == NewWindow(ip) \/ rl.buckets[ip].tokens > 0

\* the buckets Allow leaves
BucketsAfterAllow(ip) ==
    IF NewWindow(ip)
    THEN (ip :> [tokens |-> FirstTokens(rl.rate), lastReset |-> rlNow]) @@ rl.buckets
    ELSE IF rl.buckets[ip].tokens > 0
    THEN [rl.buckets EXCEPT ![ip].tokens = @ - 1]
    ELSE rl.buckets

\* RateLimiter.Allow, under rl.mu
Allow(ip) ==
    /\ Len(rlLog) < MaxRLCalls
    /\ rl' = [rl EXCEPT !.buckets = BucketsAfterAllow(ip)]
    /\ rlLog' = Append(rlLog, [ip |-> ip, t |-> rlNow, ok |-> Allowed(ip)])
    /\ UNCHANGED rlNow
    /\ UNCHANGED <<svars, dvars, kvars, cvars, avars, yvars>>

\* one pass of cleanupLoop: buckets last reset more than two windows ago go
RLCleanup ==
    /\ \E ip \in DOMAIN rl.buckets : rl.buckets[ip].lastReset < rlNow - 2 * rl.window
    /\ rl' = [rl EXCEPT !.buckets =
                 [ip \in {x \in DOMAIN rl.buckets :
                            ~(rl.buckets[x].lastReset < rlNow - 2 * rl.window)} |->
                     rl.buckets[ip]]]
    /\ UNCHANGED <<rlNow, rlLog>>
    /\ UNCHANGED <<svars, dvars, kvars, cvars, avars, yvars>>

LimiterNext ==
    \/ RLTick
    \/ \E ip \in IPs : Allow(ip)
    \/ RLCleanup

\* one rate limiter and its callers
SpecLimiter == InitLimiter /\ [][LimiterNext]_vars

\* ---------------------------------------------------------------- REST server
MaxBus == 2          \* inbound messages the server publishes
MaxChats == 2        \* calls of the agent loop the server makes

\* a text is the sequence of its pieces; " " is one space
APIKeys == {<<>>, <<"k">>}
AuthHeaders ==
    {<<>>, <<"Bearer", " ", "k">>, <<"bearer", " ", "k">>, <<"Bearer", " ", "x">>,
     <<"Basic", " ", "k">>, <<"Bearer">>, <<"Bearer", " ", " ", "k">>}
Methods == {"GET", "POST"}
ChatPath == <<"/v1/chat/completions">>
WebhookPrefix == "/v1/webhooks"
WebhookPaths == {<<WebhookPrefix, "/shopify/order">>}
OpenPaths == {<<"/v1/status">>, <<"/health">>, <<"/ready">>}
Paths == {ChatPath, <<"/v1/skills">>} \cup WebhookPaths \cup OpenPaths

\* ChatMessage
UserMsg(text) == [Role |-> "user", Content |-> text]
SystemMsg == [Role |-> "system", Content |-> "be brief"]
AssistantMsg == [Role |-> "assistant", Content |-> "hello"]
MessageLists ==
    {<<>>, <<SystemMsg>>, <<UserMsg("hi")>>, <<UserMsg("")>>,
     <<UserMsg("hi"), AssistantMsg>>, <<UserMsg("hi"), UserMsg("")>>,
     <<UserMsg(""), UserMsg("hi")>>, <<UserMsg("hi"), SystemMsg, UserMsg("yo")>>}

\* request bodies: one that cannot be read, one that is not JSON, a JSON
\* object of another shape, and chat-completion requests
PlainBodies ==
    {[kind |-> "unreadable"], [kind |-> "text", raw |-> "not json"],
     [kind |-> "object", raw |-> "{\"id\":7}"]}
ChatBodies ==
    {[kind |-> "chat", Messages |-> m, SessionKey |-> ""] : m \in MessageLists}
    \cup {[kind |-> "chat", Messages |-> <<UserMsg("hi")>>, SessionKey |-> "s1"]}

\* the requests sent: every method, path and Authorization header with one
\* body, and every body posted with the key "k" to the two handlers that read it
Requests ==
    {[Method |-> m, Path |-> p, Authorization |-> a,
      Body |-> [kind |-> "object", raw |-> "{\"id\":7}"]] :
        m \in Methods, p \in Paths, a \in AuthHeaders}
    \cup
    {[Method |-> "POST", Path |-> p, Authorization |-> <<"Bearer", " ", "k">>,
      Body |-> b] : p \in WebhookPaths, b \in PlainBodies}
    \cup
    {[Method |-> "POST", Path |-> ChatPath, Authorization |-> <<"Bearer", " ", "k">>,
      Body |-> b] : b \in PlainBodies \cup ChatBodies}

\* strings.SplitN(text, " ", 2)
SplitN2(text) ==
    LET spaces == {i \in DOMAIN text : text[i] = " "} IN
    IF spaces = {} THEN <<text>>
    ELSE LET i == CHOOSE x \in spaces : \A y \in spaces : x <= y IN
         <<SubSeq(text, 1, i - 1), SubSeq(text, i + 1, Len(text))>>

\* strings.EqualFold(scheme, "Bearer"), for the schemes sent
EqualFoldBearer(scheme) == scheme \in {<<"Bearer">>, <<"bearer">>, <<"BEARER">>}

\* (fault) any key passes
KeyMatches_Any(given, key) == TRUE

\* parts[1] != apiKey
KeyMatches(given, key) == given = key

\* AuthMiddleware: "" when next is called, else the code of the 401
AuthError(req) ==
    IF req.Path \in OpenPaths THEN ""
    ELSE IF apiKey = <<>> THEN ""
    ELSE IF req.Authorization = <<>> THEN "missing_api_key"
    ELSE LET parts == SplitN2(req.Authorization) IN
         IF Len(parts) # 2 \/ ~EqualFoldBearer(parts[1]) THEN "invalid_auth_format"
         ELSE IF ~KeyMatches(parts[2], apiKey) THEN "invalid_api_key"
         ELSE ""

\* the handler the mux of Start picks
Route(req) ==
    IF req.Method = "POST" /\ req.Path = ChatPath THEN "handleChatCompletion"
    ELSE IF req.Method = "POST" /\ req.Path \in WebhookPaths THEN "handleWebhook"
    ELSE IF req.Method = "GET" /\ req.Path = <<"/v1/status">> THEN "handleStatus"
    ELSE IF req.Method = "GET" /\ req.Path = <<"/v1/skills">> THEN "handleListSkills"
    ELSE IF req.Method = "GET" /\ req.Path \in {<<"/health">>, <<"/ready">>}
    THEN "handleHealth"
    ELSE "none"

\* decodeJSON into a ChatCompletionRequest
DecodeChat(body) ==
    IF body.kind = "chat"
    THEN [err |-> FALSE, Messages |-> body.Messages, SessionKey |-> body.SessionKey]
    ELSE IF body.kind = "object"
    THEN [err |-> FALSE, Messages |-> <<>>, SessionKey |-> ""]
    ELSE [err |-> TRUE, Messages |-> <<>>, SessionKey |-> ""]

\* the loop of handleChatCompletion: the content of the last user message
RECURSIVE LastUserContent(_)
LastUserContent(messages) ==
    IF messages = <<>> THEN ""
    ELSE IF messages[Len(messages)].Role = "user"
    THEN messages[Len(messages)].Content
    ELSE LastUserContent(SubSeq(messages, 1, Len(messages) - 1))

\* the session key handleChatCompletion passes on
ChatSessionKey(req) ==
    IF req.SessionKey = "" THEN <<"api-", apiClock>> ELSE <<req.SessionKey>>

\* agentLoop.ProcessDirectWithChannel: the session is built or retrieved and
\* gets the turns of one more exchange
ProcessDirect(sessions, key) ==
    LET had == IF key \in DOMAIN sessions THEN sessions[key] ELSE 0 IN
    (key :> (had + 1)) @@ sessions

\* strings.TrimPrefix(r.URL.Path, "/v1/webhooks")
TrimPrefix(path, prefix) ==
    IF path # <<>> /\ path[1] = prefix THEN Tail(path) ELSE path

\* WebhookEvent: json.Unmarshal leaves Body nil when the body is no object
WebhookEvent(path, body) ==
    [Path |-> path,
     Body |-> IF body.kind \in {"object", "chat"} THEN body ELSE "null",
     RawBody |-> body]

\* the bus.InboundMessage handleWebhook publishes
WebhookInbound(path, body) ==
    [Channel |-> "webhook", SenderID |-> "webhook", ChatID |-> path,
     Content |-> <<"[Webhook received on ", path, "]\n\n", WebhookEvent(path, body)>>,
     SessionKey |-> <<"webhook-">> \o path]

\* the response of a request AuthMiddleware turned away
Unauthorized(req) ==
    [kind |-> "http", req |-> req, reached |-> FALSE, handler |-> "none",
     status |-> 401, code |-> AuthError(req), agent |-> <<>>, path |-> <<>>]

\* a response of a handler
Response(req, handler, status, code) ==
    [kind |-> "http", req |-> req, reached |-> TRUE, handler |-> handler,
     status |-> status, code |-> code, agent |-> <<>>, path |-> <<>>]

\* Server.handleChatCompletion
HandleChatCompletion(req) ==
    LET dec == DecodeChat(req.Body)
        userContent == LastUserContent(dec.Messages)
        sessionKey == ChatSessionKey(dec)
        bad == Response(req, "handleChatCompletion", 400, "invalid_request")
    IN
    IF dec.err \/ dec.Messages = <<>> \/ userContent = ""
    THEN /\ apiLast' = bad
         /\ UNCHANGED <<apiKey, apiBus, apiSessions, apiClock>>
    ELSE /\ apiClock < MaxChats
         /\ \E failed \in BOOLEAN :
              /\ apiSessions' = ProcessDirect(apiSessions, sessionKey)
              /\ apiLast' =
                   [Response(req, "handleChatCompletion",
                             IF failed THEN 500 ELSE 200,
                             IF failed THEN "processing_error" ELSE "")
                    EXCEPT !.agent = [content |-> userContent,
                                      sessionKey |-> sessionKey,
                                      channel |-> "api", chatID |-> "api"]]
         /\ apiClock' = apiClock + 1
         /\ UNCHANGED <<apiKey, apiBus>>

\* (fault) a body that is not JSON is turned away like one that cannot be read
ReadAllFails_NotJSON(body) == body.kind \in {"unreadable", "text"}

\* io.ReadAll(r.Body) returns an error
ReadAllFails(body) == body.kind = "unreadable"

\* Server.handleWebhook
HandleWebhook(req) ==
    LET webhookPath == TrimPrefix(req.Path, WebhookPrefix) IN
    IF ReadAllFails(req.Body)
    THEN /\ apiLast' = Response(req, "handleWebhook", 400, "invalid_request")
         /\ UNCHANGED <<apiKey, apiBus, apiSessions, apiClock>>
    ELSE /\ Len(apiBus) < MaxBus
         /\ apiBus' = Append(apiBus, WebhookInbound(webhookPath, req.Body))
         /\ apiLast' = [Response(req, "handleWebhook", 200, "")
                        EXCEPT !.path = webhookPath]
         /\ UNCHANGED <<apiKey, apiSessions, apiClock>>

\* one request through AuthMiddleware, the mux and its handler
Serve(req) ==
    /\ IF AuthError(req) # ""
       THEN /\ apiLast' = Unauthorized(req)
            /\ UNCHANGED <<apiKey, apiBus, apiSessions, apiClock>>
       ELSE CASE Route(req) = "handleChatCompletion" -> HandleChatCompletion(req)
              [] Route(req) = "handleWebhook" -> HandleWebhook(req)
              [] Route(req) = "none" ->
                    /\ apiLast' = Response(req, "none", 404, "")
                    /\ UNCHANGED <<apiKey, apiBus, apiSessions, apiClock>>
              [] OTHER ->
                    /\ apiLast' = Response(req, Route(req), 200, "")
                    /\ UNCHANGED <<apiKey, apiBus, apiSessions, apiClock>>
    /\ UNCHANGED <<svars, dvars, kvars, cvars, rvars, yvars>>

\* NewServer, with or without an API key and no rate limit
InitApi ==
    /\ SwarmInit /\ DelegateInit /\ KnowIdle /\ ChunkIdle /\ LimiterIdle /\ OthersIdle
    /\ apiKey \in APIKeys
    /\ apiLast = <<>>
    /\ apiBus = <<>>
    /\ apiSessions = <<>>
    /\ apiClock = 0

\* ---------------------------------------------------------------- heartbeat
\* the two commands that set a heartbeat handler
HeartbeatCmds == {"gatewayCmd", "serverCmd"}
HeartbeatChannels == {"", "telegram"}
HeartbeatChatIDs == {"", "42"}

\* what agentLoop.ProcessHeartbeat may return
HeartbeatResponses == {"HEARTBEAT_OK", "heartbeat_ok", "Disk is almost full", ""}

\* tools.SilentResult
SilentResult(text) ==
    [ForLLM |-> text, ForUser |-> "", Silent |-> TRUE, IsError |-> FALSE]

\* tools.ErrorResult, as the heartbeat handlers call it
HeartbeatError ==
    [ForLLM |-> "Heartbeat error", ForUser |-> "", Silent |-> FALSE, IsError |-> TRUE]

\* the channel and chat the handler passes to ProcessHeartbeat
HeartbeatTarget(cmd, channel, chatID) ==
    IF cmd = "serverCmd" THEN <<"server", "heartbeat">>
    ELSE IF channel = "" \/ chatID = "" THEN <<"cli", "direct">>
    ELSE <<channel, chatID>>

\* the ToolResult the handler returns
HeartbeatResult(cmd, response, failed) ==
    IF failed THEN HeartbeatError
    ELSE IF cmd = "gatewayCmd" /\ response = "HEARTBEAT_OK"
    THEN SilentResult("Heartbeat OK")
    ELSE SilentResult(response)

\* the heartbeat service calls the handler; ProcessHeartbeat keeps no session
Heartbeat(cmd, channel, chatID) ==
    /\ \E failed \in BOOLEAN :
       \E response \in IF failed THEN {""} ELSE HeartbeatResponses :
          apiLast' = [kind |-> "heartbeat", cmd |-> cmd,
                      channel |-> channel, chatID |-> chatID,
                      target |-> HeartbeatTarget(cmd, channel, chatID),
                      response |-> response, failed |-> failed,
                      result |-> HeartbeatResult(cmd, response, failed)]
    /\ UNCHANGED <<apiKey, apiBus, apiSessions, apiClock>>
    /\ UNCHANGED <<svars, dvars, kvars, cvars, rvars, yvars>>

ApiNext ==
    \/ \E req \in Requests : Serve(req)
    \/ \E cmd \in HeartbeatCmds, channel \in HeartbeatChannels,
          chatID \in HeartbeatChatIDs : Heartbeat(cmd, channel, chatID)

\* the server process: its REST requests and its heartbeats
SpecApi == InitApi /\ [][ApiNext]_vars

\* ---------------------------------------------------------------- status of the swarm
\* Manager.ListAgents, under sm.mu.RLock: every task of the table
ListAgents == DOMAIN tasks

\* swarmCount of handleStatus, reported as ActiveAgents
ActiveAgents == Cardinality(ListAgents)

\* ---------------------------------------------------------------- activity log
MaxEvents == 53      \* recordEvent calls explored

\* "Keep only the last 50 events"
eventCap == 50

\* ActivityEvent; the timestamp is the number of the recording
ActivityEvent(n, source) == [Timestamp |-> n, Source |-> source]

\* (fault) the newest event is dropped at the cap
Capped_DropNewest(evs) == IF Len(evs) > eventCap THEN SubSeq(evs, 1, eventCap) ELSE evs

\* s.events = s.events[1:] when there are more than 50
Capped(evs) == IF Len(evs) > eventCap THEN Tail(evs) ELSE evs

\* the reversing loop of handleStatus
Reversed(evs) == [i \in 1..Len(evs) |-> evs[Len(evs) + 1 - i]]

\* NewServer: the list is made and the first event recorded
InitStatus ==
    /\ BaseIdle /\ ChunkCallIdle /\ ManifestIdle /\ LockIdle /\ SpawnToolIdle
    /\ events = <<ActivityEvent(1, "system")>>
    /\ recorded = 1
    /\ statusResp = <<>>

\* Server.recordEvent, under eventsMu
RecordEvent ==
    /\ recorded < MaxEvents
    /\ recorded' = recorded + 1
    /\ events' = Capped(Append(events, ActivityEvent(recorded + 1, "api")))
    /\ UNCHANGED statusResp
    /\ UNCHANGED <<bvars, chunkCall, mvars, lvars, tvars>>

\* Server.handleStatus: the copy made under eventsMu.RLock, reversed
HandleStatus ==
    /\ statusResp' = Reversed(events)
    /\ UNCHANGED <<events, recorded>>
    /\ UNCHANGED <<bvars, chunkCall, mvars, lvars, tvars>>

StatusNext == RecordEvent \/ HandleStatus

\* the activity log and GET /v1/status
SpecStatus == InitStatus /\ [][StatusNext]_vars

\* ---------------------------------------------------------------- chunkText, step by step
MaxCallText == 6     \* longest text given to chunkText, in characters
MaxCallSize == 3     \* largest chunk size given to chunkText
MaxLoopChunks == 7   \* chunks after which a loop that does not end is left alone

\* chunkText(text, size, overlap) is called; the text is ASCII, so that it
\* has as many runes as bytes, and the overlap is at most the size
InitChunkCall ==
    /\ BaseIdle /\ EventsIdle /\ ManifestIdle /\ LockIdle /\ SpawnToolIdle
    /\ chunkCall \in [n : 0..MaxCallText, size : 1..MaxCallSize,
                      overlap : 0..MaxCallSize, i : {0}, chunks : {<<>>},
                      pc : {"call"}]
    /\ chunkCall.overlap <= chunkCall.size

\* the head of chunkText: a text no longer than size is its own chunk,
\* a longer one enters the loop at i = 0
ChunkTextBegin ==
    /\ chunkCall.pc = "call"
    /\ chunkCall' =
          IF chunkCall.n <= chunkCall.size
          THEN [chunkCall EXCEPT !.chunks = <<<<0, chunkCall.n>>>>, !.pc = "returned"]
          ELSE [chunkCall EXCEPT !.pc = "loop"]
    /\ UNCHANGED <<bvars, evars, mvars, lvars, tvars>>

\* one pass of the loop of chunkText
ChunkTextPass ==
    /\ chunkCall.pc = "loop"
    /\ Len(chunkCall.chunks) < MaxLoopChunks
    /\ LET end == IF chunkCall.i + chunkCall.size > chunkCall.n
                  THEN chunkCall.n ELSE chunkCall.i + chunkCall.size
       IN chunkCall' =
            [chunkCall EXCEPT
               !.chunks = Append(@, <<chunkCall.i, end>>),
               !.pc = IF end >= chunkCall.n THEN "returned" ELSE "loop",
               !.i = IF end >= chunkCall.n THEN @
                     ELSE @ + (chunkCall.size - chunkCall.overlap)]
    /\ UNCHANGED <<bvars, evars, mvars, lvars, tvars>>

ChunkCallNext == ChunkTextBegin \/ ChunkTextPass

\* one call of chunkText with any size and overlap
SpecChunkCall == InitChunkCall /\ [][ChunkCallNext]_vars

\* ---------------------------------------------------------------- skill manifest
MaxNameLength == 64

\* names, as sequences of characters
LongName(n) == [i \in 1..n |-> "a"]
ManifestNames ==
    {<<>>, <<"a", "-", "b">>, <<"-", "a">>, <<"a", "-", "-", "b">>, <<"a", " ", "b">>,
     LongName(MaxNameLength), LongName(MaxNameLength + 1)}
ScriptLists ==
    {<<>>, <<[Path |-> "scripts/post.py", Runtime |-> "python"]>>,
     <<[Path |-> "", Runtime |-> "python"]>>,
     <<[Path |-> "run.rb", Runtime |-> "ruby"]>>,
     <<[Path |-> "run.sh", Runtime |-> "shell"], [Path |-> "x", Runtime |-> ""]>>}
CronLists ==
    {<<>>, <<[Name |-> "hourly-post", Expr |-> "0 * * * *", Task |-> "Post"]>>,
     <<[Name |-> "", Expr |-> "0 * * * *", Task |-> "Post"]>>,
     <<[Name |-> "hourly-post", Expr |-> "", Task |-> ""]>>}
WebhookLists == {<<>>, <<[Path |-> "/shopify"]>>, <<[Path |-> ""]>>}

\* SkillManifest, the fields Validate reads
Manifests ==
    [Name : ManifestNames, Version : {"", "1.0.0"}, Description : {"", "x"},
     Scripts : ScriptLists, Cron : CronLists, Webhooks : WebhookLists]

\* the SkillManifest json.Unmarshal leaves for the JSON text null
ZeroManifest ==
    [Name |-> <<>>, Version |-> "", Description |-> "", Scripts |-> <<>>,
     Cron |-> <<>>, Webhooks |-> <<>>]

\* what os.ReadFile finds at manifest.json: nothing, something it cannot
\* read, text that is no JSON, JSON of the wrong shape, null, or a manifest
SkillFiles ==
    {[kind |-> "absent"], [kind |-> "unreadable"], [kind |-> "text"],
     [kind |-> "mistyped"], [kind |-> "null"]}
    \cup {[kind |-> "manifest", value |-> m] : m \in Manifests}

\* namePattern.MatchString: ^[a-zA-Z0-9]+(-[a-zA-Z0-9]+)*$
NamePatternMatches(name) ==
    /\ name # <<>>
    /\ \A i \in DOMAIN name : name[i] \in Alnum \cup {"-"}
    /\ name[1] # "-" /\ name[Len(name)] # "-"
    /\ \A i \in 1..(Len(name) - 1) : ~(name[i] = "-" /\ name[i + 1] = "-")

validRuntimes == {"python", "node", "go", "shell"}

\* SkillManifest.Validate: the set of its complaints, empty for nil
Validate(m) ==
    {<<"name is required">> : x \in {1} \cap (IF m.Name = <<>> THEN {1} ELSE {})}
    \cup {<<"name must match pattern">> :
             x \in {1} \cap (IF m.Name # <<>> /\ ~NamePatternMatches(m.Name)
                             THEN {1} ELSE {})}
    \cup {<<"name must be at most 64 characters">> :
             x \in {1} \cap (IF Len(m.Name) > MaxNameLength THEN {1} ELSE {})}
    \cup {<<"version is required">> : x \in {1} \cap (IF m.Version = "" THEN {1} ELSE {})}
    \cup {<<"description is required">> :
             x \in {1} \cap (IF m.Description = "" THEN {1} ELSE {})}
    \cup {<<"scripts", i, "path is required">> :
             i \in {j \in DOMAIN m.Scripts : m.Scripts[j].Path = ""}}
    \cup {<<"scripts", i, "runtime is required">> :
             i \in {j \in DOMAIN m.Scripts : m.Scripts[j].Runtime = ""}}
    \cup {<<"scripts", i, "runtime must be one of">> :
             i \in {j \in DOMAIN m.Scripts :
                       /\ m.Scripts[j].Runtime # ""
                       /\ m.Scripts[j].Runtime \notin validRuntimes}}
    \cup {<<"cron", i, "name is required">> :
             i \in {j \in DOMAIN m.Cron : m.Cron[j].Name = ""}}
    \cup {<<"cron", i, "expr is required">> :
             i \in {j \in DOMAIN m.Cron : m.Cron[j].Expr = ""}}
    \cup {<<"cron", i, "task is required">> :
             i \in {j \in DOMAIN m.Cron : m.Cron[j].Task = ""}}
    \cup {<<"webhooks", i, "path is required">> :
             i \in {j \in DOMAIN m.Webhooks : m.Webhooks[j].Path = ""}}

\* json.Unmarshal(data, &manifest)
UnmarshalManifest(file) ==
    CASE file.kind = "manifest" -> [err |-> FALSE, manifest |-> file.value]
      [] file.kind = "null" -> [err |-> FALSE, manifest |-> ZeroManifest]
      [] OTHER -> [err |-> TRUE, manifest |-> ZeroManifest]

\* (fault) the parsed manifest is returned unvalidated
ValidateOnLoad_Skipped(m) == {}

\* manifest.Validate() as LoadManifest calls it
ValidateOnLoad(m) == Validate(m)

\* what LoadManifest returns: (nil, nil), (nil, error) or (manifest, nil)
LoadResult(file) ==
    LET nothing == [manifest |-> <<>>, err |-> ""]
        parsed == UnmarshalManifest(file)
    IN
    IF file.kind = "absent" THEN nothing
    ELSE IF file.kind = "unreadable"
    THEN [nothing EXCEPT !.err = "failed to read manifest.json"]
    ELSE IF parsed.err THEN [nothing EXCEPT !.err = "failed to parse manifest.json"]
    ELSE IF ValidateOnLoad(parsed.manifest) # {}
    THEN [nothing EXCEPT !.err = "invalid manifest.json"]
    ELSE [manifest |-> <<parsed.manifest>>, err |-> ""]

\* a skill directory
InitManifest ==
    /\ BaseIdle /\ EventsIdle /\ ChunkCallIdle /\ LockIdle /\ SpawnToolIdle
    /\ skillFile \in SkillFiles
    /\ loaded = <<>>

\* LoadManifest(skillDir)
LoadManifest ==
    /\ loaded = <<>>
    /\ loaded' = LoadResult(skillFile)
    /\ UNCHANGED skillFile
    /\ UNCHANGED <<bvars, evars, chunkCall, lvars, tvars>>

\* LoadManifest on one skill directory
SpecManifest == InitManifest /\ [][LoadManifest]_vars

\* ---------------------------------------------------------------- the store's lock
MaxMuCalls == 3      \* calls of GetIndex and ListCollections explored

MuNames == {<<"a">>, <<"b">>}

\* a store opened on a directory that earlier runs may have written
InitStoreMu ==
    /\ SwarmInit /\ DelegateInit /\ ChunkIdle /\ LimiterIdle /\ ApiIdle
    /\ EventsIdle /\ ChunkCallIdle /\ ManifestIdle /\ SpawnToolIdle
    /\ smMu = <<>> /\ lk = <<>>
    /\ storeMu = FreeLock
    /\ kIndexes = <<>>
    /\ kFiles \in {[c \in names |-> Encode(NewIndex)] : names \in SUBSET MuNames}
    /\ kLocks = <<>>
    /\ kProcs = <<>>
    /\ kLast = <<>>
    /\ kHist = <<>>
    /\ kAdds = 0

\* GetIndex: s.mu.Lock() returns
MuGetLock(p, c) ==
    /\ p \notin DOMAIN kProcs
    /\ kAdds < MaxMuCalls
    /\ storeMu.writers = {} /\ storeMu.readers = {}
    /\ storeMu' = [storeMu EXCEPT !.writers = {p}]
    /\ kProcs' = (p :> [op |-> "get", pc |-> "locked", coll |-> c,
                        seen |-> {}]) @@ kProcs
    /\ kAdds' = kAdds + 1
    /\ kLast' = <<>>
    /\ UNCHANGED <<kIndexes, kFiles, kLocks, kHist>>
    /\ UNCHANGED <<smMu, lk>>
    /\ UNCHANGED <<svars, dvars, cvars, rvars, avars, evars, chunkCall, mvars, tvars>>

\* GetIndex: the cache is read, written when the name is new, and the
\* deferred Unlock runs
MuGetBody(p) ==
    /\ p \in DOMAIN kProcs
    /\ kProcs[p].op = "get"
    /\ GetIndex(kProcs[p].coll)
    /\ storeMu' = [storeMu EXCEPT !.writers = @ \ {p}]
    /\ kProcs' = Without(kProcs, p)
    /\ kLast' = [proc |-> p, op |-> "get", coll |-> kProcs[p].coll, err |-> "",
                 results |-> <<>>]
    /\ UNCHANGED <<kHist, kAdds>>
    /\ UNCHANGED <<smMu, lk>>
    /\ UNCHANGED <<svars, dvars, cvars, rvars, avars, evars, chunkCall, mvars, tvars>>

\* ListCollections: s.mu.RLock() returns, and os.ReadDir
MuListRLock(p) ==
    /\ p \notin DOMAIN kProcs
    /\ kAdds < MaxMuCalls
    /\ storeMu.writers = {}
    /\ storeMu' = [storeMu EXCEPT !.readers = @ \cup {p}]
    /\ kProcs' = (p :> [op |-> "list", pc |-> "scan", coll |-> <<>>,
                        seen |-> {}]) @@ kProcs
    /\ kAdds' = kAdds + 1
    /\ kLast' = <<>>
    /\ UNCHANGED <<kIndexes, kFiles, kLocks, kHist>>
    /\ UNCHANGED <<smMu, lk>>
    /\ UNCHANGED <<svars, dvars, cvars, rvars, avars, evars, chunkCall, mvars, tvars>>

\* ListCollections: the next file; s.indexes[name] is read, and an index
\* that is not cached is loaded from its file
MuListScan(p, c) ==
    /\ p \in DOMAIN kProcs
    /\ kProcs[p].op = "list" /\ kProcs[p].pc = "scan"
    /\ c \in DOMAIN kFiles \ kProcs[p].seen
    /\ kProcs' = [kProcs EXCEPT ![p].seen = @ \cup {c},
                                ![p].coll = c,
                                ![p].pc = IF Listed(c) THEN "cache" ELSE "scan"]
    /\ kLast' = <<>>
    /\ UNCHANGED <<kIndexes, kFiles, kLocks, kHist, kAdds, storeMu>>
    /\ UNCHANGED <<smMu, lk>>
    /\ UNCHANGED <<svars, dvars, cvars, rvars, avars, evars, chunkCall, mvars, tvars>>

\* ListCollections: s.indexes[name] = idx
MuListCache(p) ==
    /\ p \in DOMAIN kProcs
    /\ kProcs[p].op = "list" /\ kProcs[p].pc = "cache"
    /\ kIndexes' = (kProcs[p].coll :> Decode(kFiles[kProcs[p].coll])) @@
                   Without(kIndexes, kProcs[p].coll)
    /\ kLocks' = (kProcs[p].coll :> FreeLock) @@ kLocks
    /\ kProcs' = [kProcs EXCEPT ![p].pc = "scan"]
    /\ kLast' = <<>>
    /\ UNCHANGED <<kFiles, kHist, kAdds, storeMu>>
    /\ UNCHANGED <<smMu, lk>>
    /\ UNCHANGED <<svars, dvars, cvars, rvars, avars, evars, chunkCall, mvars, tvars>>

\* ListCollections: every file was looked at; the deferred RUnlock runs
MuListReturn(p) ==
    /\ p \in DOMAIN kProcs
    /\ kProcs[p].op = "list" /\ kProcs[p].pc = "scan"
    /\ kProcs[p].seen = DOMAIN kFiles
    /\ storeMu' = [storeMu EXCEPT !.readers = @ \ {p}]
    /\ kLast' = [proc |-> p, op |-> "list", coll |-> <<>>, err |-> "",
                 results |-> [c \in DOMAIN kFiles |-> CollectionStats(c)]]
    /\ kProcs' = Without(kProcs, p)
    /\ UNCHANGED <<kIndexes, kFiles, kLocks, kHist, kAdds>>
    /\ UNCHANGED <<smMu, lk>>
    /\ UNCHANGED <<svars, dvars, cvars, rvars, avars, evars, chunkCall, mvars, tvars>>

StoreMuNext ==
    \/ \E p \in Procs, c \in MuNames : MuGetLock(p, c)
    \/ \E p \in Procs : MuGetBody(p)
    \/ \E p \in Procs : MuListRLock(p)
    \/ \E p \in Procs, c \in MuNames : MuListScan(p, c)
    \/ \E p \in Procs : MuListCache(p)
    \/ \E p \in Procs : MuListReturn(p)

\* GetIndex and ListCollections called concurrently
SpecStoreMu == InitStoreMu /\ [][StoreMuNext]_vars

\* ---------------------------------------------------------------- the manager's lock
MaxLkTasks == 2      \* task goroutines explored
MaxLkCalls == 2      \* manager calls one goroutine makes

\* goroutine 0 calls the manager from outside (REST handler, main agent);
\* goroutines 1.. are the ones Spawn starts
Caller == 0
LkTasks == 1..MaxLkTasks

\* the calls on the manager and the lock each takes
WriteCalls == {"Spawn", "KillAgent"}
ReadCalls == {"GetAgent", "ListAgents"}

\* where a goroutine holds no lock of the manager
Outside == {"idle", "loop"}

\* the manager with no task, and its outside caller
InitLock ==
    /\ BaseIdle /\ EventsIdle /\ ChunkCallIdle /\ ManifestIdle /\ SpawnToolIdle
    /\ storeMu = <<>>
    /\ smMu = FreeLock
    /\ lk = (Caller :> [at |-> "idle", call |-> "", held |-> FALSE, calls |-> 0])

\* sm.mu.Lock() can return for g
SmCanLock(g) == smMu.writers = {} /\ smMu.readers = {}

\* sm.mu.RLock() can return for g
SmCanRLock(g) == smMu.writers = {}

\* a goroutine outside RunTask's locked parts calls the manager: the outside
\* caller, or a tool run by the tool loop of a sub-agent
LkCall(g, call) ==
    /\ g \in DOMAIN lk
    /\ lk[g].at \in Outside /\ lk[g].call = ""
    /\ lk[g].calls < MaxLkCalls
    /\ lk' = [lk EXCEPT ![g].call = call, ![g].calls = @ + 1]
    /\ UNCHANGED smMu
    /\ UNCHANGED storeMu
    /\ UNCHANGED <<bvars, evars, chunkCall, mvars, tvars>>

\* the Lock or RLock at the head of Spawn, KillAgent, GetAgent, ListAgents
LkAcquire(g) ==
    /\ g \in DOMAIN lk
    /\ lk[g].call # "" /\ ~lk[g].held
    /\ IF lk[g].call \in WriteCalls
       THEN SmCanLock(g) /\ smMu' = [smMu EXCEPT !.writers = @ \cup {g}]
       ELSE SmCanRLock(g) /\ smMu' = [smMu EXCEPT !.readers = @ \cup {g}]
    /\ lk' = [lk EXCEPT ![g].held = TRUE]
    /\ UNCHANGED storeMu
    /\ UNCHANGED <<bvars, evars, chunkCall, mvars, tvars>>

\* the body of the call and its deferred unlock; Spawn has started the
\* goroutine of the new task
LkReturn(g) ==
    /\ g \in DOMAIN lk
    /\ lk[g].call # "" /\ lk[g].held
    /\ smMu' = [writers |-> smMu.writers \ {g}, readers |-> smMu.readers \ {g}]
    /\ LET back == [lk EXCEPT ![g].call = "", ![g].held = FALSE]
           free == LkTasks \ DOMAIN lk
       IN IF lk[g].call = "Spawn" /\ free # {}
          THEN lk' = ((CHOOSE t \in free : \A u \in free : t <= u) :>
                        [at |-> "start", call |-> "", held |-> FALSE, calls |-> 0])
                     @@ back
          ELSE lk' = back
    /\ UNCHANGED storeMu
    /\ UNCHANGED <<bvars, evars, chunkCall, mvars, tvars>>

\* RunTask: sm.mu.RLock() before the registry is read
LkRegistryRLock(t) ==
    /\ t \in DOMAIN lk
    /\ lk[t].at = "start"
    /\ SmCanRLock(t)
    /\ smMu' = [smMu EXCEPT !.readers = @ \cup {t}]
    /\ lk' = [lk EXCEPT ![t].at = "registry"]
    /\ UNCHANGED storeMu
    /\ UNCHANGED <<bvars, evars, chunkCall, mvars, tvars>>

\* (fault) the read lock is kept while the tool loop runs
ReleasedBeforeLoop_None(t) == {}

\* sm.mu.RUnlock() before tools.RunToolLoop is called
ReleasedBeforeLoop(t) == {t}

\* RunTask: registry and maxIter are read, the lock released, the loop entered
LkEnterLoop(t) ==
    /\ t \in DOMAIN lk
    /\ lk[t].at = "registry"
    /\ smMu' = [smMu EXCEPT !.readers = @ \ ReleasedBeforeLoop(t)]
    /\ lk' = [lk EXCEPT ![t].at = "loop"]
    /\ UNCHANGED storeMu
    /\ UNCHANGED <<bvars, evars, chunkCall, mvars, tvars>>

\* RunTask: the tool loop has returned; sm.mu.Lock() for the status
LkUpdateLock(t) ==
    /\ t \in DOMAIN lk
    /\ t # Caller
    /\ lk[t].at = "loop" /\ lk[t].call = ""
    /\ SmCanLock(t)
    /\ smMu' = [smMu EXCEPT !.writers = @ \cup {t}]
    /\ lk' = [lk EXCEPT ![t].at = "update"]
    /\ UNCHANGED storeMu
    /\ UNCHANGED <<bvars, evars, chunkCall, mvars, tvars>>

\* RunTask: Status and Result are set, sm.mu.Unlock(), on to the announcement
LkUpdateUnlock(t) ==
    /\ t \in DOMAIN lk
    /\ lk[t].at = "update"
    /\ smMu' = [smMu EXCEPT !.writers = @ \ {t}]
    /\ lk' = [lk EXCEPT ![t].at = "announce"]
    /\ UNCHANGED storeMu
    /\ UNCHANGED <<bvars, evars, chunkCall, mvars, tvars>>

\* RunTask: PublishInbound returned; the deferred function takes sm.mu.Lock()
LkDeferLock(t) ==
    /\ t \in DOMAIN lk
    /\ lk[t].at = "announce"
    /\ SmCanLock(t)
    /\ smMu' = [smMu EXCEPT !.writers = @ \cup {t}]
    /\ lk' = [lk EXCEPT ![t].at = "deferred"]
    /\ UNCHANGED storeMu
    /\ UNCHANGED <<bvars, evars, chunkCall, mvars, tvars>>

\* RunTask: Finished is set, sm.mu.Unlock(); the goroutine of Spawn goes on
\* to the callback
LkDeferUnlock(t) ==
    /\ t \in DOMAIN lk
    /\ lk[t].at = "deferred"
    /\ smMu' = [smMu EXCEPT !.writers = @ \ {t}]
    /\ lk' = [lk EXCEPT ![t].at = "callback"]
    /\ UNCHANGED storeMu
    /\ UNCHANGED <<bvars, evars, chunkCall, mvars, tvars>>

\* the callback has run and the goroutine ends
LkCallbackDone(t) ==
    /\ t \in DOMAIN lk
    /\ lk[t].at = "callback"
    /\ lk' = [lk EXCEPT ![t].at = "done"]
    /\ UNCHANGED smMu
    /\ UNCHANGED storeMu
    /\ UNCHANGED <<bvars, evars, chunkCall, mvars, tvars>>

LockNext ==
    \/ \E g \in {Caller} \cup LkTasks, call \in WriteCalls \cup ReadCalls : LkCall(g, call)
    \/ \E g \in {Caller} \cup LkTasks : LkAcquire(g)
    \/ \E g \in {Caller} \cup LkTasks : LkReturn(g)
    \/ \E t \in LkTasks : LkRegistryRLock(t)
    \/ \E t \in LkTasks : LkEnterLoop(t)
    \/ \E t \in LkTasks : LkUpdateLock(t)
    \/ \E t \in LkTasks : LkUpdateUnlock(t)
    \/ \E t \in LkTasks : LkDeferLock(t)
    \/ \E t \in LkTasks : LkDeferUnlock(t)
    \/ \E t \in LkTasks : LkCallbackDone(t)

\* the manager's lock, the goroutines of its tasks and its callers
SpecLock == InitLock /\ [][LockNext]_vars

\* ---------------------------------------------------------------- the shared spawn_agent tool
MaxToolCalls == 3    \* spawn_agent calls explored

\* the tool loops that hold the one SpawnTool of the shared registry
ToolLoopIds == {"main", "agent-1"}

\* the (channel, chat_id) a tool loop runs for
ToolContexts == {<<"cli", "direct">>, <<"telegram", "42">>}

ToolLoopIdle == [pc |-> "idle", channel |-> "", chatID |-> ""]

\* NewSpawnTool, and no tool loop inside a call
InitSpawnTool ==
    /\ BaseIdle /\ EventsIdle /\ ChunkCallIdle /\ ManifestIdle /\ LockIdle
    /\ spawnTool = [originChannel |-> "cli", originChatID |-> "direct"]
    /\ toolLoops = [l \in ToolLoopIds |-> ToolLoopIdle]
    /\ toolSpawned = <<>>

\* the calls of spawn_agent begun so far
ToolCallsBegun ==
    Len(toolSpawned) + Cardinality({l \in ToolLoopIds : toolLoops[l].pc # "idle"})

\* a tool loop running for (channel, chatID) comes to a spawn_agent call
ToolCallBegin(l, ctx) ==
    /\ toolLoops[l].pc = "idle"
    /\ ToolCallsBegun < MaxToolCalls
    /\ toolLoops' = [toolLoops EXCEPT ![l] = [pc |-> "call", channel |-> ctx[1], chatID |-> ctx[2]]]
    /\ UNCHANGED <<spawnTool, toolSpawned>>
    /\ UNCHANGED <<bvars, evars, chunkCall, mvars, lvars>>

\* SetContext, first assignment: t.originChannel = channel
SetContextChannel(l) ==
    /\ toolLoops[l].pc = "call"
    /\ spawnTool' = [spawnTool EXCEPT !.originChannel = toolLoops[l].channel]
    /\ toolLoops' = [toolLoops EXCEPT ![l].pc = "channel"]
    /\ UNCHANGED toolSpawned
    /\ UNCHANGED <<bvars, evars, chunkCall, mvars, lvars>>

\* SetContext, second assignment: t.originChatID = chatID
SetContextChatID(l) ==
    /\ toolLoops[l].pc = "channel"
    /\ spawnTool' = [spawnTool EXCEPT !.originChatID = toolLoops[l].chatID]
    /\ toolLoops' = [toolLoops EXCEPT ![l].pc = "context"]
    /\ UNCHANGED toolSpawned
    /\ UNCHANGED <<bvars, evars, chunkCall, mvars, lvars>>

\* Execute: Spawn is called with the fields of the tool as they are now
SpawnToolExecute(l) ==
    /\ toolLoops[l].pc = "context"
    /\ toolSpawned' = Append(toolSpawned,
          [loop |-> l, channel |-> toolLoops[l].channel, chatID |-> toolLoops[l].chatID,
           OriginChannel |-> spawnTool.originChannel,
           OriginChatID |-> spawnTool.originChatID])
    /\ toolLoops' = [toolLoops EXCEPT ![l] = ToolLoopIdle]
    /\ UNCHANGED spawnTool
    /\ UNCHANGED <<bvars, evars, chunkCall, mvars, lvars>>

SpawnToolNext ==
    \/ \E l \in ToolLoopIds, ctx \in ToolContexts : ToolCallBegin(l, ctx)
    \/ \E l \in ToolLoopIds : SetContextChannel(l)
    \/ \E l \in ToolLoopIds : SetContextChatID(l)
    \/ \E l \in ToolLoopIds : SpawnToolExecute(l)

\* tool loops that share one SpawnTool
SpecSpawnTool == InitSpawnTool /\ [][SpawnToolNext]_vars

Next ==
    \/ Tick
    \/ \E ch \in OriginChannels, chat \in OriginChatIDs, cb \in BOOLEAN :
            Spawn(ch, chat, cb)
    \/ CancelCallerCtx
    \/ \E id \in DOMAIN tasks, res \in ToolLoopOutcomes : LoopReturn(id, res)
    \/ \E id \in DOMAIN tasks : LoopPanic(id)
    \/ \E id \in DOMAIN tasks : UpdateStatus(id)
    \/ \E id \in DOMAIN tasks : Announce(id)
    \/ \E id \in DOMAIN tasks : Finish(id)
    \/ \E id \in DOMAIN tasks : Notify(id)
    \/ \E id \in KillIDs : HandleKillAgent(id)

Spec == Init /\ [][Next]_vars

\* ---------------------------------------------------------------- properties
\* the goroutine of a task is past RunTask
RunTaskReturned(id) ==
    \/ pc[id] \in {"notify", "done"}
    \/ pc[id] = "panicked" /\ loopRes[id].isNil

\* the goroutine of a task has ended
GoroutineEnded(id) == pc[id] \in {"done", "panicked"}

AnnouncementsOf(id) == {i \in 1..Len(bus) : bus[i].SenderID = <<"swarm", id>>}

\* C1: a status that is completed, failed or cancelled never changes again;
\* the only changes of a status are running -> completed, failed, cancelled.
C1_TerminalSticky ==
    [][\A id \in DOMAIN tasks :
          /\ tasks[id].Status \in Terminal => tasks'[id].Status = tasks[id].Status
          /\ tasks'[id].Status # tasks[id].Status =>
                tasks[id].Status = "running" /\ tasks'[id].Status \in Terminal]_vars

\* C2: after a successful KillAgent (the cancel function has been invoked)
\* GetAgent reads cancelled, at once and after the executor has finished.
C2_KilledReadsCancelled ==
    \A id \in DOMAIN tasks : cancelCalled[id] => GetAgent(id).Status = "cancelled"

\* C3: once the goroutine of a task spawned with a callback has ended, the
\* callback has been invoked exactly once; it is never invoked twice.
C3_CallbackExactlyOnce ==
    \A id \in DOMAIN tasks :
        /\ callbacks[id] <= 1
        /\ (hasCallback[id] /\ GoroutineEnded(id)) => callbacks[id] = 1

\* C4: a task publishes at most one announcement, only after its status is
\* terminal, on channel system with sender swarm:<id> and chat id
\* <origin_channel>:<origin_chat_id>; once its executor is over it has
\* published exactly one.
C4_OneAnnouncement ==
    \A id \in DOMAIN tasks :
        /\ Cardinality(AnnouncementsOf(id)) <= 1
        /\ \A i \in AnnouncementsOf(id) :
              /\ tasks[id].Status \in Terminal
              /\ bus[i].Channel = "system"
              /\ bus[i].ChatID = <<tasks[id].OriginChannel, tasks[id].OriginChatID>>
        /\ (GoroutineEnded(id) \/ pc[id] \in {"defer", "notify"})
              => Cardinality(AnnouncementsOf(id)) = 1

\* C5: whatever happens to the ctx passed to Spawn, a task that KillAgent
\* has not cancelled has a live context and is not cancelled.
C5_IndependentContext ==
    \A id \in DOMAIN tasks :
        ~cancelCalled[id] => ~TaskCtxErr(id) /\ tasks[id].Status # "cancelled"

C5_Witness ==
    /\ callerCtxDone
    /\ \E id \in DOMAIN tasks :
          /\ pc[id] = "done" /\ tasks[id].Status = "completed"
    /\ \E id \in DOMAIN tasks :
          /\ pc[id] = "loop" /\ tasks[id].Status = "running" /\ ~TaskCtxErr(id)

\* C6: the ids handed out are agent-1, agent-2, ... in this order, all
\* distinct and all in the task map; when Spawn returns the new task is in
\* the map with status running.
C6_DistinctIncreasingIDs ==
    /\ [](/\ \A i \in 1..Len(spawned) : spawned[i] = TaskID(i)
          /\ DOMAIN tasks = {TaskID(i) : i \in 1..Len(spawned)}
          /\ \A id \in DOMAIN tasks : tasks[id].ID = id)
    /\ [][Len(spawned') > Len(spawned) =>
             LET id == spawned'[Len(spawned')] IN
                /\ id \notin DOMAIN tasks
                /\ id \in DOMAIN tasks'
                /\ tasks'[id].Status = "running"]_vars

C6_Witness ==
    /\ Len(spawned) = 2
    /\ spawned[1] # spawned[2]
    /\ pc[spawned[1]] = "loop"
    /\ tasks[spawned[2]].Status = "running"

\* C7: a kill of an unknown id, or of a task that is not running, returns an
\* error, leaves every task and every cancel function as it was, and is
\* answered 404 (unknown) or 400 (not running).
C7_KillErrorChangesNothing ==
    [][(op'.name = "kill" /\ op'.called) =>
          LET id == op'.id IN
            /\ id \notin DOMAIN tasks =>
                  /\ op'.err # <<>> /\ op'.http = 404
                  /\ tasks' = tasks /\ cancelCalled' = cancelCalled
            /\ (id \in DOMAIN tasks /\ tasks[id].Status # "running") =>
                  /\ op'.err # <<>> /\ op'.http = 400
                  /\ tasks' = tasks /\ cancelCalled' = cancelCalled
            /\ op'.err # <<>> => (tasks' = tasks /\ cancelCalled' = cancelCalled)]_vars

C7_Witness ==
    /\ op.name = "kill" /\ op.called
    /\ op.id \in DOMAIN tasks
    /\ tasks[op.id].Status = "completed"
    /\ op.http = 400
    /\ ~cancelCalled[op.id]

\* C8: a panic in a task's executor stays inside the task's goroutine and
\* the task ends failed.
C8_PanicContained ==
    \A id \in DOMAIN tasks :
        pc[id] = "panicked" => (~crashed /\ tasks[id].Status = "failed")

C10_TerminalHasFinished ==
    \A id \in DOMAIN tasks :
        tasks[id].Status \in Terminal =>
            tasks[id].Finished # 0 /\ tasks[id].Finished >= tasks[id].Created

\* the position of a task in the order of reaching a terminal status
TermPos(id) == CHOOSE i \in 1..Len(termOrder) : termOrder[i] = id

\* C11: announcements are on the bus in completion order: of two
\* announcements the earlier one is of the task whose status became
\* terminal first.
C11_AnnounceInCompletionOrder ==
    \A i, j \in 1..Len(bus) :
        i < j => TermPos(bus[i].SenderID[2]) < TermPos(bus[j].SenderID[2])

\* C12: Execute spawns one task; it returns the result its callback
\* delivered, or an error result once the ambient ctx is done; returning
\* through the ctx branch leaves the task, its context and its goroutine
\* as they were.
C12_DelegateBlocksAndLeaksTask ==
    /\ [](\A id \in DOMAIN dl : dl[id].pc = "returned" =>
            \/ /\ dl[id].ret = DelegateCancelled
               /\ callerCtxDone
            \/ /\ dl[id].ret = ToolResult(loopRes[id])
               /\ callbacks[id] = 1
               /\ pc[id] = "done")
    /\ [][/\ \A id \in DOMAIN dl' \ DOMAIN dl :
              /\ DOMAIN tasks' = DOMAIN tasks \cup {id}
              /\ id \notin DOMAIN tasks
              /\ tasks'[id].Status = "running"
          /\ \A id \in DOMAIN dl :
              (dl[id].pc = "waiting" /\ dl'[id] = [pc |-> "returned", ret |-> DelegateCancelled])
                => (tasks' = tasks /\ cancelCalled' = cancelCalled /\ pc' = pc)]_vars

C12_Witness ==
    \E id \in DOMAIN dl :
        /\ dl[id] = [pc |-> "returned", ret |-> DelegateCancelled]
        /\ pc[id] = "done"
        /\ tasks[id].Status = "completed"
        /\ ~cancelCalled[id]
        /\ resultChan[id] # <<>>
\* ---------------------------------------------------------------- knowledge claims
\* caller p's Search returns in this step
SearchReturns(p) ==
    /\ p \in DOMAIN kProcs
    /\ kProcs[p].pc = "search"
    /\ p \notin DOMAIN kProcs'

\* the file of collection c holds the index that is in memory
WrittenThrough(c) ==
    kIndexes[c] # NewIndex =>
        c \in DOMAIN kFiles /\ kFiles[c] = Encode(kIndexes[c])

\* C13: when a Search on a collection returns, every mutation AddDocument
\* has made to the collection's index in memory is in the collection's file.
C13_WriteThrough ==
    [][\A p \in Procs : SearchReturns(p) => WrittenThrough(kProcs[p].coll)]_vars

RECURSIVE SumValues(_)
SumValues(f) ==
    IF DOMAIN f = {} THEN 0
    ELSE LET k == CHOOSE x \in DOMAIN f : TRUE
         IN f[k] + SumValues(Without(f, k))

\* C14: in every index DocCount is the number of entries of Docs and
\* SumDocLen is the sum of the values of DocLengths.
C14_CountsMatchMaps ==
    \A c \in DOMAIN kIndexes :
        /\ kIndexes[c].DocCount = Cardinality(DOMAIN kIndexes[c].Docs)
        /\ kIndexes[c].SumDocLen = SumValues(kIndexes[c].DocLengths)

\* the chunks written to collection c, in the order of writing
HistOf(c) == SelectSeq(kHist, LAMBDA h : h.coll = c)

\* C15: two adds of the same document write different chunk ids, and every
\* chunk written counts once in DocCount.
C15_SameDocTwice ==
    \A c \in DOMAIN kIndexes :
        /\ \A i, j \in DOMAIN HistOf(c) :
              (i < j /\ HistOf(c)[i].doc = HistOf(c)[j].doc)
                  => HistOf(c)[i].chunk # HistOf(c)[j].chunk
        /\ kIndexes[c].DocCount = Len(HistOf(c))

\* ceil(max(1, (n - overlap) / (size - overlap)))
ExpectedChunks(n, size, overlap) ==
    LET c == -((overlap - n) \div (size - overlap))
    IN IF c < 1 THEN 1 ELSE c

\* C16: a document of n code points is cut into
\* ceil(max(1, (n - 200) / 800)) chunks, all with the document's id and
\* with Index 0, 1, 2, ... in order.
C16_ChunkCount ==
    cChunks # <<>> =>
        /\ Len(cChunks) = ExpectedChunks(cDoc.nRunes, chunkSize, chunkOverlap)
        /\ \A k \in DOMAIN cChunks :
              /\ cChunks[k].DocumentID = cDoc.ID
              /\ cChunks[k].Index = k - 1

C16_Witness ==
    /\ Len(cChunks) = 4
    /\ cDoc.nBytes > cDoc.nRunes

\* C17: the index LoadIndex reads from the file Save wrote is the index
\* that was saved.
C17_SaveLoadRoundTrip ==
    \A c \in DOMAIN kIndexes : Decode(Encode(kIndexes[c])) = kIndexes[c]

\* caller p's AddDocument saves and returns in this step
AddSaves(p) ==
    /\ p \in DOMAIN kProcs
    /\ kProcs[p].pc = "save"
    /\ p \notin DOMAIN kProcs'

\* C18: a file that does not decode makes the collection start from an
\* empty index, and the file stays as it is until an AddDocument saves.
C18_CorruptFilePreserved ==
    [][\A c \in DOMAIN kFiles :
          kFiles[c] = CorruptFile =>
              /\ (c \notin DOMAIN kIndexes /\ c \in DOMAIN kIndexes')
                    => kIndexes'[c] = NewIndex
              /\ kFiles'[c] # CorruptFile
                    => \E p \in Procs : AddSaves(p) /\ kProcs[p].coll = c]_vars

\* the callers inside Index.AddDocument and inside Index.Search
Adding(c) ==
    {p \in DOMAIN kProcs : kProcs[p].coll = c /\ kProcs[p].pc = "mutate"}
Searching(c) ==
    {p \in DOMAIN kProcs : kProcs[p].coll = c /\ kProcs[p].pc = "search"}

\* C19: on one index at most one AddDocument is in progress, and none
\* while a Search is in progress.
C19_AddExcludesSearch ==
    \A c \in DOMAIN kIndexes :
        /\ Cardinality(Adding(c)) <= 1
        /\ Adding(c) # {} => Searching(c) = {}

C19_Witness ==
    \E c \in DOMAIN kIndexes :
        /\ Cardinality(Searching(c)) = 2
        /\ kIndexes[c].DocCount > 0

\* the place of chunk id in the order of writing to collection c
FirstAdded(c, id) ==
    CHOOSE i \in DOMAIN HistOf(c) :
        /\ HistOf(c)[i].chunk = id
        /\ \A j \in 1..(i - 1) : HistOf(c)[j].chunk # id

\* the ranking a stable sort of the chunks in insertion order gives
StableRanking(c, queryTokens) ==
    CHOOSE r \in Rankings(kIndexes[c], queryTokens) :
        \A i, j \in DOMAIN r :
            (i < j /\ r[i].Score = r[j].Score)
                => FirstAdded(c, r[i].ChunkID) < FirstAdded(c, r[j].ChunkID)

\* C20: what a Search returns is the first limit entries of the ranking by
\* score, highest first, equal scores in the order of insertion.
C20_StableRanking ==
    [][\A p \in Procs :
          SearchReturns(p) =>
              kLast'.results =
                  IF kIndexes[kProcs[p].coll].DocCount = 0 THEN <<>>
                  ELSE Truncate(StableRanking(kProcs[p].coll,
                                              tokenize(kProcs[p].arg.query)),
                                kProcs[p].arg.limit)]_vars
\* ---------------------------------------------------------------- ranking claims
\* the last call that returned is a Search
LastSearch == kLast # <<>> /\ kLast.op = "search"

\* the index that Search read
LastIdx == kIndexes[kLast.coll]

\* the tokens of the query of that Search
LastQuery == tokenize(kLast.query)

\* occurrences of term t among tokens
TermCount(tokens, t) == Cardinality({i \in DOMAIN tokens : tokens[i] = t})

\* the tokens of the content the index holds for chunk id
ContentTokens(idx, id) == tokenize(idx.Docs[id].Content)

\* C21: every chunk a Search returns has a score above zero and holds at
\* least one token of the query in its content.
C21_OnlyMatchingChunks ==
    LastSearch =>
        \A i \in DOMAIN kLast.results :
            /\ kLast.results[i].Score > 0
            /\ \E q \in DOMAIN LastQuery :
                  TermCount(ContentTokens(LastIdx, kLast.results[i].ChunkID),
                            LastQuery[q]) > 0

\* chunk x has every query term of chunk y with the same frequency, one
\* query term more, and as many tokens
Dominates(idx, query, x, y) ==
    /\ Len(ContentTokens(idx, x)) = Len(ContentTokens(idx, y))
    /\ \A q \in DOMAIN query :
          TermCount(ContentTokens(idx, y), query[q]) > 0 =>
              TermCount(ContentTokens(idx, x), query[q])
                  = TermCount(ContentTokens(idx, y), query[q])
    /\ \E q \in DOMAIN query :
          /\ TermCount(ContentTokens(idx, x), query[q]) > 0
          /\ TermCount(ContentTokens(idx, y), query[q]) = 0

\* the places of chunk id in the results
PlacesOf(id) == {i \in DOMAIN kLast.results : kLast.results[i].ChunkID = id}

\* C22: a chunk that dominates another of the same length on the query
\* terms has the higher score and comes before it in the results.
C22_MoreTermsRankHigher ==
    LastSearch =>
        \A x, y \in DOMAIN LastIdx.Docs :
            Dominates(LastIdx, LastQuery, x, y) =>
                /\ Score(LastIdx, LastQuery, x) > Score(LastIdx, LastQuery, y)
                /\ \A j \in PlacesOf(y) : \E i \in PlacesOf(x) : i < j

\* C23: a Search on a collection without documents returns no result and
\* no error.
C23_EmptyCollectionSearch ==
    (LastSearch /\ LastIdx.DocCount = 0) =>
        /\ kLast.results = <<>>
        /\ kLast.err = ""

C23_Witness ==
    /\ LastSearch
    /\ LastIdx.DocCount = 0
    /\ kLast.coll \notin DOMAIN kFiles
    /\ kLast.results = <<>>

\* the number of AddDocument calls that wrote to collection c
DocsAdded(c) ==
    Cardinality({i \in DOMAIN HistOf(c) : HistOf(c)[i].chunk[3] = 0})

\* C24: ListCollections reports for every collection the number of
\* documents added to it and the number of chunks its index holds.
C24_ListCounts ==
    (kLast # <<>> /\ kLast.op = "list") =>
        \A c \in DOMAIN kLast.results :
            /\ kLast.results[c].Documents = DocsAdded(c)
            /\ kLast.results[c].Chunks = Cardinality(DOMAIN kIndexes[c].Docs)
\* ---------------------------------------------------------------- limiter claims
\* the Allow calls for ip, in order
CallsOf(ip) == SelectSeq(rlLog, LAMBDA c : c.ip = ip)

\* the window the k-th call of calls falls in and its place in that window
RECURSIVE WindowAt(_, _)
WindowAt(calls, k) ==
    IF k = 0 THEN [open |-> FALSE, start |-> 0, count |-> 0]
    ELSE LET w == WindowAt(calls, k - 1) IN
         IF ~w.open \/ calls[k].t - w.start >= rl.window
         THEN [open |-> TRUE, start |-> calls[k].t, count |-> 1]
         ELSE [w EXCEPT !.count = @ + 1]

\* C25: in every window of an IP the first rate calls are allowed and the
\* later ones refused, the first call at or after the window's end is
\* allowed and opens the next window, and a call changes no other IP's bucket.
C25_WindowQuota ==
    /\ [](\A ip \in IPs : \A k \in DOMAIN CallsOf(ip) :
            CallsOf(ip)[k].ok <=> WindowAt(CallsOf(ip), k).count <= rl.rate)
    /\ [][\A ip \in IPs :
            (Len(rlLog') > Len(rlLog) /\ rlLog'[Len(rlLog')].ip = ip) =>
                \A other \in IPs \ {ip} :
                    /\ other \in DOMAIN rl.buckets' <=> other \in DOMAIN rl.buckets
                    /\ other \in DOMAIN rl.buckets =>
                          rl.buckets'[other] = rl.buckets[other]]_vars

C25_Witness ==
    \E ip \in IPs : \E i, j, k \in DOMAIN CallsOf(ip) :
        /\ i < j /\ j < k
        /\ CallsOf(ip)[i].ok /\ ~CallsOf(ip)[j].ok /\ CallsOf(ip)[k].ok
        /\ \E other \in IPs \ {ip} : CallsOf(other) # <<>>

\* C26: in no interval of the length of the window are more than rate calls
\* of one IP allowed.
C26_SlidingWindow ==
    \A ip \in IPs : \A s \in 0..MaxRLClock :
        Cardinality({k \in DOMAIN CallsOf(ip) :
                        /\ CallsOf(ip)[k].ok
                        /\ s <= CallsOf(ip)[k].t
                        /\ CallsOf(ip)[k].t < s + rl.window}) <= rl.rate
\* ---------------------------------------------------------------- server claims
\* the last thing served was a REST request
LastHttp == apiLast # <<>> /\ apiLast.kind = "http"

\* C27 (as stated): with a key configured, a request reaches the wrapped
\* handler exactly when its path is /v1/status, /health or /ready or its
\* Authorization header is "Bearer " followed by the configured key, and is
\* answered 401 otherwise; with no key every request reaches the handler.
C27_AuthGate ==
    LastHttp =>
        /\ apiLast.reached <=>
              \/ apiKey = <<>>
              \/ apiLast.req.Path \in OpenPaths
              \/ apiLast.req.Authorization = <<"Bearer", " ">> \o apiKey
        /\ ~apiLast.reached => apiLast.status = 401 /\ apiLast.handler = "none"

\* C27 (amended): the same, with the scheme Bearer read in any letter case.
C27_AuthGateAnyCase ==
    LastHttp =>
        /\ apiLast.reached <=>
              \/ apiKey = <<>>
              \/ apiLast.req.Path \in OpenPaths
              \/ \E scheme \in {"Bearer", "bearer", "BEARER"} :
                    apiLast.req.Authorization = <<scheme, " ">> \o apiKey
        /\ ~apiLast.reached => apiLast.status = 401 /\ apiLast.handler = "none"

C27_Witness ==
    /\ LastHttp
    /\ apiKey # <<>>
    /\ apiLast.req.Path \notin OpenPaths
    /\ apiLast.req.Authorization = <<"Bearer", " ">> \o apiKey
    /\ apiLast.reached
    /\ apiLast.handler = "handleWebhook"

\* the last request was served by handleChatCompletion
LastChat == LastHttp /\ apiLast.handler = "handleChatCompletion"

\* the messages of the last request, none when the body is no chat request
LastMessages ==
    IF apiLast.req.Body.kind = "chat" THEN apiLast.req.Body.Messages ELSE <<>>

\* the places of the user messages
UserPlaces(messages) == {i \in DOMAIN messages : messages[i].Role = "user"}

\* the content of the last message with role user
LastUserMessage(messages) ==
    messages[CHOOSE i \in UserPlaces(messages) :
                \A j \in UserPlaces(messages) : j <= i].Content

\* C28: a chat-completion request with no messages or with no user message
\* is answered invalid_request and leaves the agent loop and the sessions
\* alone; a request with a user message is processed with the content of its
\* last user message.
C28_ChatValidation ==
    /\ [](LastChat /\ apiLast.req.Body.kind \in {"chat", "object"} =>
            IF UserPlaces(LastMessages) = {}
            THEN apiLast.code = "invalid_request" /\ apiLast.agent = <<>>
            ELSE /\ apiLast.agent # <<>>
                 /\ apiLast.agent.content = LastUserMessage(LastMessages))
    /\ [][LastChat' /\ apiLast'.agent = <<>> => apiSessions' = apiSessions]_vars

\* the step is handleWebhook serving a POST whose body could be read
WebhookServed ==
    /\ apiLast' # apiLast \/ apiBus' # apiBus
    /\ apiLast'.kind = "http"
    /\ apiLast'.handler = "handleWebhook"
    /\ apiLast'.req.Body.kind # "unreadable"

\* C29: handleWebhook serving a POST to /v1/webhooks<path> with a readable
\* body publishes exactly one inbound message, with channel webhook, chat_id
\* <path> and session_key webhook-<path>, and answers 200 with received and
\* that path, whether or not the body is JSON.
C29_WebhookPublishes ==
    [][WebhookServed =>
         LET path == Tail(apiLast'.req.Path) IN
         /\ Len(apiBus') = Len(apiBus) + 1
         /\ SubSeq(apiBus', 1, Len(apiBus)) = apiBus
         /\ apiBus'[Len(apiBus')].Channel = "webhook"
         /\ apiBus'[Len(apiBus')].ChatID = path
         /\ apiBus'[Len(apiBus')].SessionKey = <<"webhook-">> \o path
         /\ apiLast'.status = 200
         /\ apiLast'.path = path]_vars

C29_Witness ==
    /\ LastHttp
    /\ apiLast.handler = "handleWebhook"
    /\ apiLast.req.Body.kind = "text"
    /\ apiLast.status = 200
    /\ Len(apiBus) = 2
    /\ apiBus[2].Content[4].RawBody = apiLast.req.Body
    /\ apiBus[2].ChatID = <<"/shopify/order">>

\* the last thing served was a heartbeat
LastHeartbeat == apiLast # <<>> /\ apiLast.kind = "heartbeat"

\* C30: the heartbeat handler returns a silent result for the response
\* HEARTBEAT_OK and, for any other response, a result that is not silent, so
\* that it is delivered to the channel the heartbeat came from.
C30_HeartbeatResult ==
    LastHeartbeat /\ ~apiLast.failed =>
        (apiLast.result.Silent <=> apiLast.response = "HEARTBEAT_OK")

\* ---------------------------------------------------------------- status claims
\* C31: the server holds at most 50 events, the most recently recorded ones
\* in recording order, and GET /v1/status returns exactly those, newest
\* first, and leaves the stored list as it was.
C31_RecentEvents ==
    /\ [](/\ Len(events) = (IF recorded < eventCap THEN recorded ELSE eventCap)
          /\ \A i \in DOMAIN events :
                events[i].Timestamp = recorded - Len(events) + i)
    /\ [][statusResp' # statusResp =>
            /\ events' = events
            /\ Len(statusResp') = Len(events)
            /\ \A i \in DOMAIN events :
                  statusResp'[i] = events[Len(events) + 1 - i]]_vars

C31_Witness ==
    /\ Len(events) = eventCap
    /\ events[1].Timestamp > 1
    /\ Len(statusResp) = eventCap
    /\ statusResp[1] = events[eventCap]

\* C32: the active sub-agent count a GET /v1/status made now reports is the
\* number of tasks whose status is running; completed, failed and cancelled
\* tasks are not counted.
C32_ActiveAgentsAreRunning ==
    ActiveAgents = Cardinality({id \in DOMAIN tasks : tasks[id].Status = "running"})

C34_LoadManifest ==
    loaded # <<>> =>
        /\ skillFile.kind = "absent" => loaded.manifest = <<>> /\ loaded.err = ""
        /\ skillFile.kind \in {"text", "mistyped"} =>
              loaded.manifest = <<>> /\ loaded.err # ""
        /\ skillFile.kind = "null" => loaded.manifest = <<>> /\ loaded.err # ""
        /\ skillFile.kind = "manifest" =>
              IF Validate(skillFile.value) # {}
              THEN loaded.manifest = <<>> /\ loaded.err # ""
              ELSE loaded.manifest = <<skillFile.value>> /\ loaded.err = ""
        /\ loaded.manifest # <<>> =>
              loaded.err = "" /\ Validate(loaded.manifest[1]) = {}

C34_Witness ==
    /\ loaded # <<>>
    /\ skillFile.kind = "manifest"
    /\ skillFile.value.Name = LongName(MaxNameLength + 1)
    /\ Validate(skillFile.value) = {<<"name must be at most 64 characters">>}
    /\ loaded.manifest = <<>>
    /\ loaded.err = "invalid manifest.json"

\* ---------------------------------------------------------------- lock claims
\* the goroutines about to write the store's map, and those reading it
MapWriters ==
    {p \in DOMAIN kProcs : kProcs[p].pc = "cache" \/ kProcs[p].op = "get"}
MapReaders ==
    {p \in DOMAIN kProcs : kProcs[p].op = "list" /\ kProcs[p].pc = "scan"}

\* C35: the store's map changes only in a step of the goroutine that holds
\* the store's lock for writing; never are two goroutines at a write of the
\* map, nor one at a write while another reads it.
C35_MapWrittenUnderLock ==
    /\ [][DOMAIN kIndexes' # DOMAIN kIndexes \/ kIndexes' # kIndexes =>
            storeMu.writers # {}]_vars
    /\ [](/\ Cardinality(MapWriters) <= 1
          /\ MapWriters # {} => MapReaders = {})

\* the goroutines that hold the manager's lock
SmHolders == smMu.writers \cup smMu.readers

\* the goroutines stopped at a Lock or RLock of the manager
SmWaiting ==
    {g \in DOMAIN lk : (lk[g].call # "" /\ ~lk[g].held) \/ lk[g].at \in {"start", "announce"}}

\* C36: a goroutine whose tool loop, announcement or callback is running
\* holds no lock of the manager, not even while a tool of the loop calls the
\* manager; so whenever a goroutine waits for the lock, the lock is free for
\* it or a holder can go on to release it: no call on the manager deadlocks.
C36_NoLockAcrossLoop ==
    /\ \A g \in DOMAIN lk :
          (lk[g].at \in {"loop", "announce", "callback", "done", "idle"} /\ ~lk[g].held)
              => g \notin SmHolders
    /\ SmWaiting # {} => ENABLED LockNext

C36_Witness ==
    /\ {1, 2} \subseteq DOMAIN lk
    /\ lk[1].at = "loop" /\ lk[1].call = "Spawn" /\ ~lk[1].held
    /\ lk[2].at = "update"
    /\ smMu.writers = {2}
    /\ lk[Caller].call = "ListAgents"

\* C37: every task made through spawn_agent has as its origin the channel
\* and chat id of the tool loop that made the call, however the SetContext
\* and Execute calls of the loops sharing the tool interleave.
C37_OriginIsCallers ==
    \A i \in 1..Len(toolSpawned) :
        /\ toolSpawned[i].OriginChannel = toolSpawned[i].channel
        /\ toolSpawned[i].OriginChatID = toolSpawned[i].chatID

\* C38: when no AddDocument call is in progress any more, the file of every
\* collection that was added to decodes to the index in memory, and holds a
\* chunk under every chunk id an add has written, whatever the order of the
\* adds and their saves.
C38_FileIsMemoryAfterAdds ==
    kProcs = <<>> =>
        \A c \in DOMAIN kIndexes :
            (\E k \in DOMAIN kHist : kHist[k].coll = c) =>
                /\ c \in DOMAIN kFiles
                /\ Decodable(kFiles[c])
                /\ Decode(kFiles[c]) = kIndexes[c]
                /\ \A k \in DOMAIN kHist :
                      kHist[k].coll = c => kHist[k].chunk \in DOMAIN kFiles[c].Docs

\* C40: a search returns, without a panic and without an error, at most
\* limit results, and none for a limit of 0 or below.
C40_SearchWithinLimit ==
    (kLast # <<>> /\ "panic" \in DOMAIN kLast) =>
        /\ ~kLast.panic
        /\ kLast.err = ""
        /\ Len(kLast.results) <= (IF kLast.limit > 0 THEN kLast.limit ELSE 0)

\* C39: the goroutine of a delegated task is never stopped at its callback:
\* when it comes to call it, the send on the call's channel can be made, also
\* after Execute has returned on the cancelled context; no task calls its
\* callback twice and no channel holds more than its capacity.
C39_CallbackSendNeverBlocks ==
    \A id \in DOMAIN dl :
        /\ (pc[id] = "notify" /\ ~crashed) => ENABLED Notify(id)
        /\ callbacks[id] <= 1
        /\ Len(resultChan[id]) <= ChanCap

C39_Witness ==
    \E id \in DOMAIN dl :
        /\ dl[id].pc = "returned" /\ dl[id].ret = DelegateCancelled
        /\ pc[id] = "done" /\ callbacks[id] = 1
        /\ Len(resultChan[id]) = ChanCap
====
